---- MODULE Spec2Model ----
(***************************************************************************)
(* The JSON-RPC stdin/stdout substrate of @junctionrelay/payload-sdk:      *)
(* PayloadPlugin.startRpc / handleLine / dispatch / writeResponse.         *)
(*                                                                         *)
(* One step of the model is one callback of the Node event loop:           *)
(*   StartRpc         startRpc() (listeners installed, ready notice)       *)
(*   OnLine(doc)      the 'line' listener: handleLine runs synchronously   *)
(*                    up to its first await                                *)
(*   Resume(i)        the continuation of handleLine for line i after      *)
(*                    `await this.dispatch(...)` settles                   *)
(*   OnClose          the 'close' listener                                 *)
(*   OnSigterm        the SIGTERM listener                                 *)
(***************************************************************************)
EXTENDS Integers, Sequences, FiniteSets, TLC

\* Number of input lines the host delivers in one run.
MaxLines == 2

\* Longest payloadName the constructor is tried on, besides the two names
\* the documentation gives.
MaxNameLen == 5

\* The wall clock: its reading when the process starts, the size of one
\* change of it in milliseconds, and how many times it moves past the start.
Epoch == 1700
TickMs == 1200
MaxTicks == 1

(***************************************************************************)
(* JSON_RPC_ERRORS (packages/protocol)                                     *)
(***************************************************************************)
PARSE_ERROR == -32700
INVALID_REQUEST == -32600
METHOD_NOT_FOUND == -32601
INVALID_PARAMS == -32602
INTERNAL_ERROR == -32603
SERVER_ERROR == -32000

(***************************************************************************)
(* JavaScript values.  Every value is a record [t, v, n]: t is the result  *)
(* of typeof (with "null" and "error" told apart from "object"), v a       *)
(* string payload, n the numeric payload of a finite number.               *)
(***************************************************************************)
Val(t, v, n) == [t |-> t, v |-> v, n |-> n]
Undefined == Val("undefined", "", 0)
JsNull == Val("null", "", 0)
Num(n) == Val("number", "finite", n)
NaN == Val("number", "NaN", 0)
Infinity == Val("number", "Infinity", 0)
Str(s) == Val("string", s, 0)
Obj(s) == Val("object", s, 0)
BigInt == Val("bigint", "10n", 10)
False == Val("boolean", "false", 0)

\* A JSON number literal too large for a double, e.g. 1e999.
HugeLiteral == Val("number", "1e999", 0)

(***************************************************************************)
(* JSON.parse on one value of a document: the identity except that a       *)
(* number literal beyond the double range becomes Infinity.                *)
(***************************************************************************)
JSONparseValue(w) == IF w = HugeLiteral THEN Infinity ELSE w

(***************************************************************************)
(* JSON.stringify on one value: a non-finite number is written as null, a  *)
(* BigInt makes stringify throw, undefined has no JSON text (a property    *)
(* holding it is left out).                                                *)
(***************************************************************************)
Unserializable(x) == x.t = "bigint"
HasJsonText(x) == x.t # "undefined"
JSONstringifyValue(x) ==
    IF x.t = "number" /\ x.v # "finite" THEN JsNull ELSE x

(***************************************************************************)
(* Values a handler can throw: an Error (with its code property and its    *)
(* message), a string, null or undefined.                                  *)
(***************************************************************************)
Thrown(t, code, message) == [t |-> t, code |-> code, message |-> message]
NoThrow == Thrown("none", Undefined, "")
TypeError(message) == Thrown("Error", Undefined, message)

\* What an invocation settles to: a returned value or a thrown one.  async
\* tells a plugin handler (a promise that settles whenever the handler is
\* done) from an outcome that is known as soon as dispatch has run.
Return(v, async) == [kind |-> "return", value |-> v, err |-> NoThrow, async |-> async]
Throw(e, async) == [kind |-> "throw", value |-> Undefined, err |-> e, async |-> async]

(***************************************************************************)
(* State.                                                                  *)
(*   argv       process.argv[2], the entry path of the plugin              *)
(*   mod        the module `await import(absolutePath)` yields: whether it *)
(*              has a default export, whether that has metadata, and the   *)
(*              payloadName and the handler map of the exported config     *)
(*   now        what Date.now() returns, in milliseconds                   *)
(*   startTime  this.startTime, 0 until the constructor has set it         *)
(*   lifecycle  "Starting", "Ready" or "Stopped"                           *)
(*   exitCode   the status the process ended with, -1 while running        *)
(*   cause      what ended the process                                     *)
(*   lines      the lines read so far, in order                            *)
(*   pc         per line: "await" (suspended in dispatch), "rejected"      *)
(*              (handleLine's promise rejected, .catch callback queued),   *)
(*              "done" (a response was written), "unhandled" (the .catch   *)
(*              callback has run)                                          *)
(*   settled    per line: what dispatch settles to                         *)
(*   stdout     the response lines written, in order                       *)
(*   answers    for each line of stdout, the index of the input line that  *)
(*              caused it                                                  *)
(*   stderr     the diagnostic notices written, in order                   *)
(*   calls      the handler invocations made, in order                     *)
(* and, for the helper functions that are exercised on their own,          *)
(*   call       the last application: the function and its arguments as    *)
(*              they are when it has returned                              *)
(*   returned   what that application returned or threw                    *)
(* and, for scripts/pack.mjs,                                              *)
(*   files      the files the script has written, in order: path and bytes *)
(***************************************************************************)
VARIABLES argv, mod, now, startTime,
          lifecycle, exitCode, cause, lines, pc, settled, stdout, answers, stderr, calls,
          call, returned, files

vars == <<argv, mod, now, startTime,
          lifecycle, exitCode, cause, lines, pc, settled, stdout, answers, stderr, calls,
          call, returned, files>>

\* No helper function has been applied.
NoCall == [fn |-> "none"]

(***************************************************************************)
(* The plugin under test: config.metadata and config.handlers.  Each       *)
(* declared handler stands for one way a handler can end.                  *)
(***************************************************************************)
Metadata == Obj("metadata")
\* { healthy: true, uptime }
Health(uptime) == Val("object", "healthy", uptime)
Schema == Obj("schema")

handlers ==
    [ getMetadata |-> Return(Obj("shadow"), TRUE),
      healthCheck |-> Throw(Thrown("Error", Undefined, "unhealthy"), TRUE),
      getOutputSchema |-> Return(Schema, TRUE),
      config    |-> Return(Undefined, TRUE),
      transform |-> Return(BigInt, TRUE),
      sensor    |-> Throw(Thrown("Error", Undefined, "boom"), TRUE),
      stop      |-> Throw(Thrown("Error", Num(INVALID_PARAMS), "bad params"), TRUE),
      file      |-> Throw(Thrown("Error", Str("ENOENT"), "no such file"), TRUE),
      layout    |-> Throw(Thrown("Error", NaN, "bad layout"), TRUE),
      text      |-> Throw(Thrown("string", Undefined, "oops"), TRUE),
      blank     |-> Throw(Thrown("string", Undefined, ""), TRUE),
      format    |-> Throw(Thrown("Error", Undefined, ""), TRUE),
      decode    |-> Throw(Thrown("Error", Num(PARSE_ERROR), "Parse error"), TRUE),
      validate  |-> Throw(Thrown("null", Undefined, ""), TRUE) ]

\* handlers: {}
NoHandlers == [m \in {} |-> Return(Undefined, TRUE)]

\* Properties the handler map, a plain object, inherits from Object.prototype:
\* eleven functions and the accessor __proto__, whose value is an object.
ObjectPrototype ==
    {"constructor", "hasOwnProperty", "isPrototypeOf", "propertyIsEnumerable",
     "toLocaleString", "toString", "valueOf", "__defineGetter__", "__defineSetter__",
     "__lookupGetter__", "__lookupSetter__", "__proto__"}

(***************************************************************************)
(* String(x).  The text of a string is its pieces written one after        *)
(* another: a value Str(v) has the one piece v, a string that the program  *)
(* takes apart has several.  An array gives the texts of its items with    *)
(* commas between them, "" for an item that is null or undefined; any      *)
(* other object gives "[object Object]".                                   *)
(***************************************************************************)
Digit10 == <<"0", "1", "2", "3", "4", "5", "6", "7", "8", "9">>

RECURSIVE Decimal(_)
Decimal(n) ==
    IF n < 10 THEN Digit10[n + 1] ELSE Decimal(n \div 10) \o Digit10[(n % 10) + 1]

RECURSIVE Concat(_)
Concat(pieces) ==
    IF pieces = <<>> THEN "" ELSE Head(pieces) \o Concat(Tail(pieces))

RECURSIVE StringPieces(_)
StringPieces(x) ==
    IF "pieces" \in DOMAIN x THEN x.pieces
    ELSE IF "items" \in DOMAIN x
    THEN IF x.items = <<>> THEN <<>>
         ELSE LET first == IF Head(x.items).t \in {"null", "undefined"}
                           THEN <<>>
                           ELSE StringPieces(Head(x.items))
              IN  IF Len(x.items) = 1
                  THEN first
                  ELSE first \o <<",">> \o StringPieces([x EXCEPT !.items = Tail(@)])
    ELSE IF "entries" \in DOMAIN x THEN <<"[object Object]">>
    ELSE IF x.t \in {"string", "boolean"} THEN <<x.v>>
    ELSE IF x.t = "number"
    THEN IF x.v # "finite" THEN <<x.v>>
         ELSE IF x.n < 0 THEN <<"-" \o Decimal(-x.n)>> ELSE <<Decimal(x.n)>>
    ELSE IF x.t = "bigint" THEN <<Decimal(x.n)>>
    ELSE IF x.t = "object" THEN <<"[object Object]">>
    ELSE <<x.t>>

\* obj[x] converts x to a property key the same way.
String(x) == Concat(StringPieces(x))

\* toLowerCase on one piece: the pieces with an upper-case letter that the
\* values of this module hold.
LowerCase(piece) ==
    CASE piece = "Value" -> "value"
      [] piece = "decimalPlaces" -> "decimalplaces"
      [] piece = "[object Object]" -> "[object object]"
      [] piece = "NaN" -> "nan"
      [] piece = "Infinity" -> "infinity"
      [] piece = "C" -> "c"
      [] piece = "MB" -> "mb"
      [] piece = "Memory" -> "memory"
      [] piece = "#FFFF00" -> "#ffff00"
      [] piece = "ENOENT" -> "enoent"
      [] OTHER -> piece

(***************************************************************************)
(* dispatch(method, params): the outcome its promise settles to.  The      *)
(* lookup this.config.handlers[method] finds the author's own handlers and *)
(* what the handler map inherits from Object.prototype.                    *)
(***************************************************************************)
\* The not-found failure raised with the wrong member of JSON_RPC_ERRORS.
MethodNotFoundAsParseError(method) ==
    Thrown("Error", Num(PARSE_ERROR), "Method not found: " \o String(method))

MethodNotFound(method) ==
    Thrown("Error", Num(METHOD_NOT_FOUND), "Method not found: " \o String(method))

\* handler(handlerParams) for a handler found on Object.prototype: the
\* function is called without a receiver.  Object(params) is params;
\* isPrototypeOf answers false for an argument that is no object before it
\* looks at its receiver; __proto__ holds an object, which cannot be called.
Inherited(key, params) ==
    CASE key = "toString" -> Return(Str("[object Undefined]"), FALSE)
      [] key = "constructor" -> Return(params, FALSE)
      [] key = "toLocaleString" ->
            Throw(TypeError("Object.prototype.toLocaleString called on null or undefined"),
                  FALSE)
      [] key = "isPrototypeOf" /\ params.t # "object" -> Return(False, FALSE)
      [] key = "__proto__" -> Throw(TypeError("handler is not a function"), FALSE)
      [] OTHER -> Throw(TypeError("Cannot convert undefined or null to object"), FALSE)

\* dispatch that checks the request first: no method name, InvalidRequest.
dispatchInvalidRequest(method, params) ==
    IF method.t # "string"
    THEN Throw(Thrown("Error", Num(INVALID_REQUEST), "Invalid Request"), FALSE)
    ELSE IF method = Str("getMetadata") THEN Return(Metadata, FALSE)
    ELSE IF method = Str("healthCheck")
    THEN Return(Health((now - startTime) \div 1000), FALSE)
    ELSE IF String(method) \in DOMAIN mod.handlers THEN mod.handlers[String(method)]
    ELSE IF String(method) \in ObjectPrototype THEN Inherited(String(method), params)
    ELSE Throw(MethodNotFound(method), FALSE)

\* dispatch that looks the method up in the handler map before the built-ins.
dispatchOwnFirst(method, params) ==
    IF String(method) \in DOMAIN mod.handlers THEN mod.handlers[String(method)]
    ELSE IF method = Str("getMetadata") THEN Return(Metadata, FALSE)
    ELSE IF method = Str("healthCheck")
    THEN Return(Health((now - startTime) \div 1000), FALSE)
    ELSE IF String(method) \in ObjectPrototype THEN Inherited(String(method), params)
    ELSE Throw(MethodNotFound(method), FALSE)

\* dispatch whose getMetadata returns this.config, not this.config.metadata.
dispatchWholeConfig(method, params) ==
    IF method = Str("getMetadata") THEN Return(Obj("config"), FALSE)
    ELSE IF method = Str("healthCheck")
    THEN Return(Health((now - startTime) \div 1000), FALSE)
    ELSE IF String(method) \in DOMAIN mod.handlers THEN mod.handlers[String(method)]
    ELSE IF String(method) \in ObjectPrototype THEN Inherited(String(method), params)
    ELSE Throw(MethodNotFound(method), FALSE)

dispatch(method, params) ==
    IF method = Str("getMetadata") THEN Return(Metadata, FALSE)
    ELSE IF method = Str("healthCheck")
    THEN Return(Health((now - startTime) \div 1000), FALSE)
    ELSE IF String(method) \in DOMAIN mod.handlers THEN mod.handlers[String(method)]
    ELSE IF String(method) \in ObjectPrototype THEN Inherited(String(method), params)
    ELSE Throw(MethodNotFound(method), FALSE)

\* The same for a dispatch that looks in the handler map before the built-ins.
InvokesHandlerOwnFirst(method) ==
    String(method) \in DOMAIN mod.handlers \cup (ObjectPrototype \ {"__proto__"})

\* TRUE when dispatch calls a function found under config.handlers[method].
InvokesHandler(method) ==
    /\ method \notin {Str("getMetadata"), Str("healthCheck")}
    /\ String(method) \in DOMAIN mod.handlers \cup (ObjectPrototype \ {"__proto__"})

\* The calls dispatch makes: handler(handlerParams), with the params it was
\* given.
Invoked(method, params) ==
    IF InvokesHandler(method)
    THEN <<[method |-> String(method), params |-> params]>>
    ELSE <<>>

(***************************************************************************)
(* Input lines.  A line is text that JSON.parse rejects, the text null, or *)
(* a document whose members method, params and id are each present with a  *)
(* value or Absent (a number, a string, an array or {} reads like an       *)
(* object without members).                                                *)
(***************************************************************************)
Absent == Val("absent", "", 0)

Doc(valid, isNull, jsonrpc, method, params, id) ==
    [valid |-> valid, isNull |-> isNull, jsonrpc |-> jsonrpc,
     method |-> method, params |-> params, id |-> id]

Garbage == Doc(FALSE, FALSE, Absent, Absent, Absent, Absent)
NullDoc == Doc(TRUE, TRUE, Absent, Absent, Absent, Absent)
EmptyDoc == Doc(TRUE, FALSE, Absent, Absent, Absent, Absent)
Request(method, params, id) == Doc(TRUE, FALSE, Str("2.0"), Str(method), params, id)

Params == Obj("{profile}")

Lines ==
    { Garbage, NullDoc, EmptyDoc,
      Request("getMetadata", Absent, Num(1)),
      Request("getMetadata", Absent, Absent),
      Request("healthCheck", Absent, Num(2)),
      Request("getOutputSchema", Params, Num(3)),
      Request("getOutputSchema", Absent, HugeLiteral),
      Request("getOutputSchema", Num(0), Num(15)),
      Request("GetOutputSchema", Absent, Num(3)),
      Request("doesNotExist", Absent, Str("a")),
      Request("toString", Absent, Num(4)),
      Request("config", JsNull, Num(5)),
      Request("transform", Absent, Num(6)),
      Request("sensor", Absent, Str("b")),
      Request("stop", Absent, Num(7)),
      Request("file", Absent, Num(8)),
      Request("layout", Absent, Num(9)),
      Request("text", Absent, Num(10)),
      Request("blank", Absent, Num(12)),
      Request("format", Absent, Num(13)),
      Request("decode", Absent, Num(14)),
      Request("validate", Absent, Num(11)),
      Request("valueOf", Absent, Num(16)),
      \* a method that is not a string: 5, and ["sensor"]
      Doc(TRUE, FALSE, Str("2.0"), Num(5), Absent, Num(17)),
      Doc(TRUE, FALSE, Str("2.0"), [t |-> "object", items |-> <<Str("sensor")>>],
          Absent, Num(18)) }

\* JSON.parse(line) of a line it accepts.
JSONparse(doc) ==
    [doc EXCEPT !.jsonrpc = JSONparseValue(@), !.method = JSONparseValue(@),
                !.params = JSONparseValue(@), !.id = JSONparseValue(@)]

\* request.key on a parsed request that is not null.
Prop(request, key) == IF request[key] = Absent THEN Undefined ELSE request[key]

\* request.params || {}: 0 is falsy, as are "", false, null and undefined.
ParamsOrDefaultFalsy(request) ==
    IF Prop(request, "params").t \in {"undefined", "null"} \/ Prop(request, "params") = Num(0)
    THEN Obj("{}")
    ELSE Prop(request, "params")

\* request.params ?? {}
ParamsOrDefault(request) ==
    IF Prop(request, "params").t \in {"undefined", "null"} THEN Obj("{}")
    ELSE Prop(request, "params")

(***************************************************************************)
(* Responses.  The object handed to writeResponse has the members jsonrpc  *)
(* and id and either result or error {code, message}; JSON.stringify       *)
(* leaves out a member whose value is undefined.                           *)
(***************************************************************************)
Response(id, result, error, code, message) ==
    [jsonrpc |-> Str("2.0"), id |-> id, result |-> result,
     error |-> error, code |-> code, message |-> message]

ResultResponse(id, result) == Response(id, result, FALSE, Absent, Absent)
ErrorResponse(id, code, message) == Response(id, Absent, TRUE, code, Str(message))

Wire(x) == IF x = Absent \/ ~HasJsonText(x) THEN Absent ELSE JSONstringifyValue(x)

\* JSON.stringify(response), called without a space argument, gives a text
\* without line breaks: breaks counts the line breaks inside the text.
JSONstringify(response) ==
    [response EXCEPT !.id = Wire(@), !.result = Wire(@), !.code = Wire(@)]
        @@ [breaks |-> 0]

\* writeResponse with JSON.stringify(response, null, 2): one line break after
\* the opening brace and one after each of the three members.
writeResponseIndented(out, response) ==
    Append(out, [JSONstringify(response) EXCEPT !.breaks = 4] @@ [eol |-> 1])

\* writeResponse(response): one call of process.stdout.write with the text
\* and one newline after it (eol), appended to stdout.  JSON.stringify throws
\* on a response that holds an unserializable value; handleLineResume decides
\* that case before it writes.
writeResponse(out, response) == Append(out, JSONstringify(response) @@ [eol |-> 1])

(***************************************************************************)
(* handleLine after `await this.dispatch(...)` has settled: the rest of    *)
(* the try block and the catch block.  Its effect is one response handed   *)
(* to writeResponse, or the rejection of handleLine's own promise.         *)
(***************************************************************************)
NoResponse == Response(Absent, Absent, FALSE, Absent, Absent)
Written(response) == [kind |-> "write", response |-> response]
Rejected == [kind |-> "reject", response |-> NoResponse]

\* typeof err.code === 'number' ? err.code : SERVER_ERROR
ErrorCode(err) == IF err.code.t = "number" THEN err.code ELSE Num(SERVER_ERROR)

\* catch (err) { ... }: reading err.code of null or undefined throws, and so
\* does reading request.id of a request that is null.
CatchBlock(request, err) ==
    IF err.t \in {"null", "undefined"} THEN Rejected
    ELSE IF request.isNull THEN Rejected
    ELSE Written(ErrorResponse(Prop(request, "id"), ErrorCode(err), err.message))

\* handleLine answering with a running number of its own instead of the id
\* of the request.
handleLineResumeNumbered(request, outcome) ==
    IF outcome.kind = "return" /\ ~Unserializable(outcome.value)
    THEN Written(ResultResponse(Num(Len(stdout) + 1), outcome.value))
    ELSE IF outcome.kind = "return"
    THEN CatchBlock([request EXCEPT !.id = Num(Len(stdout) + 1)],
                    TypeError("Do not know how to serialize a BigInt"))
    ELSE CatchBlock([request EXCEPT !.id = Num(Len(stdout) + 1)], outcome.err)

handleLineResume(request, outcome) ==
    IF outcome.kind = "return"
    THEN IF Unserializable(outcome.value)
         THEN CatchBlock(request, TypeError("Do not know how to serialize a BigInt"))
         ELSE Written(ResultResponse(Prop(request, "id"), outcome.value))
    ELSE CatchBlock(request, outcome.err)

\* The parse-error response built with the id of the request that was never
\* decoded, as the other two responses of handleLine are.
ParseErrorRequestId == ErrorResponse(Undefined, Num(PARSE_ERROR), "Parse error")

\* The response to a line JSON.parse rejects.
ParseError == ErrorResponse(Num(0), Num(PARSE_ERROR), "Parse error")

(***************************************************************************)
(* PLUGIN_ID_PATTERN (packages/protocol):                                  *)
(*   /^[a-z][a-z0-9]*(-[a-z0-9]+)*\.[a-z][a-z0-9]*(-[a-z0-9]+)*$/          *)
(* A name is the sequence of its characters.                               *)
(***************************************************************************)
Lower == {"a", "b", "c", "d", "e", "f", "g", "h", "i", "j", "k", "l", "m",
          "n", "o", "p", "q", "r", "s", "t", "u", "v", "w", "x", "y", "z"}
Digit == {"0", "1", "2", "3", "4", "5", "6", "7", "8", "9"}

\* [a-z][a-z0-9]*(-[a-z0-9]+)* matching the whole of s.
KebabCase(s) ==
    /\ Len(s) >= 1
    /\ s[1] \in Lower
    /\ \A i \in 2..Len(s) :
          \/ s[i] \in Lower \cup Digit
          \/ s[i] = "-" /\ i < Len(s) /\ s[i + 1] \in Lower \cup Digit

\* The pattern without its closing $: what follows the match is ignored.
PLUGIN_ID_PATTERN_Unanchored(name) ==
    \E p \in 1..Len(name) :
        /\ name[p] = "."
        /\ KebabCase(SubSeq(name, 1, p - 1))
        /\ \E e \in p + 1..Len(name) : KebabCase(SubSeq(name, p + 1, e))

\* PLUGIN_ID_PATTERN.test(name)
PLUGIN_ID_PATTERN(name) ==
    \E p \in 1..Len(name) :
        /\ name[p] = "."
        /\ KebabCase(SubSeq(name, 1, p - 1))
        /\ KebabCase(SubSeq(name, p + 1, Len(name)))

isPluginPayloadName(name) == PLUGIN_ID_PATTERN(name)

\* The text of a name: `${name}` in a template literal.
RECURSIVE Text(_)
Text(name) == IF name = <<>> THEN "" ELSE Head(name) \o Text(Tail(name))

\* The two names of the documentation and the characters names are made of
\* otherwise: one of each class the pattern tells apart.
AcmeWidgetV2 == <<"a", "c", "m", "e", ".", "w", "i", "d", "g", "e", "t", "-", "v", "2">>
BadName == <<"B", "a", "d", "N", "a", "m", "e">>
Names ==
    {AcmeWidgetV2, BadName}
        \cup UNION {[1..n -> {"a", "1", "-", ".", "A"}] : n \in 0..MaxNameLen}

(***************************************************************************)
(* new PayloadPlugin(config): the error it throws, NoThrow when it         *)
(* returns.                                                                *)
(***************************************************************************)
PayloadNameError(name) ==
    Thrown("Error", Undefined,
           "payloadName '" \o Text(name)
               \o "' must be namespaced dot-notation (e.g. 'junctionrelay.jr-protocol')")

\* A constructor that accepts any name.
constructorUnchecked(config) == NoThrow

constructor(config) ==
    IF ~PLUGIN_ID_PATTERN(config.payloadName)
    THEN PayloadNameError(config.payloadName)
    ELSE NoThrow

(***************************************************************************)
(* The modules rpc-host is started on: the sample plugin, the same with no *)
(* handlers, with a bad name, with a default export that has no metadata,  *)
(* with no default export, and an entry path with no file behind it.       *)
(***************************************************************************)
Module(default, metadata, payloadName, handlerMap) ==
    [loads |-> TRUE, throws |-> FALSE, default |-> default, metadata |-> metadata,
     payloadName |-> payloadName, handlers |-> handlerMap]

Modules ==
    { Module(TRUE, TRUE, AcmeWidgetV2, handlers),
      Module(TRUE, TRUE, AcmeWidgetV2, NoHandlers),
      Module(TRUE, TRUE, BadName, handlers),
      Module(TRUE, FALSE, AcmeWidgetV2, handlers),
      Module(FALSE, FALSE, AcmeWidgetV2, handlers),
      \* import(absolutePath) rejects: there is no such file, or the module
      \* throws while it loads.
      [Module(FALSE, FALSE, AcmeWidgetV2, NoHandlers) EXCEPT !.loads = FALSE],
      [Module(FALSE, FALSE, AcmeWidgetV2, NoHandlers) EXCEPT !.loads = FALSE,
                                                             !.throws = TRUE] }

\* The process has started; rpc-host has not run yet.
Started ==
    /\ now = Epoch
    /\ startTime = 0
    /\ lifecycle = "Starting"
    /\ exitCode = -1
    /\ cause = "none"
    /\ lines = <<>>
    /\ pc = <<>>
    /\ settled = <<>>
    /\ stdout = <<>>
    /\ answers = <<>>
    /\ stderr = <<>>
    /\ calls = <<>>
    /\ call = NoCall
    /\ returned = NoCall
    /\ files = <<>>

Init ==
    /\ argv \in {Undefined, Str(""), Str("dist/index.js")}
    /\ mod \in Modules
    /\ Started

\* startRpc() without its last statement.
StartRpcQuiet ==
    /\ lifecycle' = "Ready"
    /\ stderr' = stderr

\* startRpc(): install the listeners, write the ready notice.
StartRpc ==
    /\ lifecycle' = "Ready"
    /\ stderr' = Append(stderr, "ready")

\* process.stderr.write(message); process.exit(1), and an exception nothing
\* catches, which Node reports on stderr before it exits with status 1.
Exit1(why, message) ==
    /\ lifecycle' = "Stopped"
    /\ exitCode' = 1
    /\ cause' = why
    /\ stderr' = Append(stderr, message)
    /\ UNCHANGED startTime

(***************************************************************************)
(* rpc-host.mjs.  The script runs in two turns of the event loop: up to    *)
(* `await import(absolutePath)`, and from there on once the module has     *)
(* loaded.  lifecycle is "Starting" before the first and "Loading" between *)
(* the two.                                                                *)
(***************************************************************************)
\* resolve(pluginPath) for a relative path without "." and ".." segments,
\* in a process whose working directory is /srv/plugins/acme.
resolve(pluginPath) == "/srv/plugins/acme" \o "/" \o pluginPath

\* if (!pluginPath): no entry path, or an empty one; else the start of the
\* import.
Main ==
    /\ lifecycle = "Starting"
    /\ IF argv \in {Undefined, Str("")}
       THEN Exit1("usage", "Usage: rpc-host.mjs <plugin-entry>")
       ELSE /\ lifecycle' = "Loading"
            /\ UNCHANGED <<startTime, exitCode, cause, stderr>>
    /\ UNCHANGED <<files, call, returned, argv, mod, now, lines, pc, settled, stdout, answers, calls>>

\* The import has settled: a rejection is an exception nothing catches (the
\* error the module threw, here new Error("plugin module failed to load"), or
\* Node's for a file that is not there, with rpc-host.mjs installed as
\* /srv/sdk/bin/rpc-host.mjs); then
\* the default export and its metadata, the constructor, startRpc.
Imported ==
    /\ lifecycle = "Loading"
    /\ IF ~mod.loads
       THEN Exit1("uncaught",
                  IF mod.throws THEN "plugin module failed to load"
                  ELSE "Cannot find module '" \o resolve(argv.v)
                           \o "' imported from /srv/sdk/bin/rpc-host.mjs")
       ELSE IF ~mod.default \/ ~mod.metadata
       THEN Exit1("export", "Error: Plugin at " \o resolve(argv.v)
                                 \o " has no default export with metadata")
       ELSE IF constructor(mod).t # "none"
       THEN Exit1("uncaught", constructor(mod).message)
       ELSE /\ startTime' = now
            /\ StartRpc
            /\ UNCHANGED <<exitCode, cause>>
    /\ UNCHANGED <<files, call, returned, argv, mod, now, lines, pc, settled, stdout, answers, calls>>

\* SIGTERM before startRpc has installed its listener: the signal ends the
\* process (status 143 to a shell) and nothing is written.
OnSigtermStarting ==
    /\ lifecycle \in {"Starting", "Loading"}
    /\ lifecycle' = "Stopped"
    /\ exitCode' = 143
    /\ cause' = "killed"
    /\ UNCHANGED <<files, call, returned, argv, mod, now, startTime, lines, pc, settled, stdout,
                   answers, stderr, calls>>

\* Time passes.
Tick ==
    /\ lifecycle = "Ready"
    /\ now + TickMs <= startTime + MaxTicks * TickMs
    /\ now' = now + TickMs
    /\ UNCHANGED <<files, call, returned, argv, mod, startTime, lifecycle, exitCode, cause, lines, pc,
                   settled, stdout, answers, stderr, calls>>

\* The system clock is set back (a time-server correction, an operator):
\* Date.now() reads the wall clock.
SetBack ==
    /\ lifecycle = "Ready"
    /\ now >= startTime
    /\ now' = now - TickMs
    /\ UNCHANGED <<files, call, returned, argv, mod, startTime, lifecycle, exitCode, cause, lines, pc,
                   settled, stdout, answers, stderr, calls>>

\* Line i has a continuation in the microtask queue: it needs no handler to
\* finish first.
Queued(i) == pc[i] \in {"await", "rejected"} /\ ~settled[i].async

\* The line listener of a plugin whose healthCheck starts the uptime anew.
OnLineRestartsUptime(doc) ==
    /\ lifecycle = "Ready"
    /\ Len(lines) < MaxLines
    /\ lines' = Append(lines, doc)
    /\ LET i == Len(lines) + 1
           request == JSONparse(doc)
       IN  IF ~doc.valid
           THEN /\ stdout' = writeResponse(stdout, ParseError)
                /\ answers' = Append(answers, i)
                /\ pc' = Append(pc, "done")
                /\ settled' = Append(settled, Return(Undefined, FALSE))
                /\ calls' = calls
           ELSE IF request.isNull
           THEN /\ pc' = Append(pc, "rejected")
                /\ settled' = Append(settled,
                        Throw(TypeError("Cannot read properties of null"), FALSE))
                /\ UNCHANGED <<stdout, answers, calls>>
           ELSE /\ pc' = Append(pc, "await")
                /\ settled' = Append(settled,
                        dispatch(Prop(request, "method"), ParamsOrDefault(request)))
                /\ calls' = IF InvokesHandler(Prop(request, "method"))
                            THEN Append(calls, [line |-> i,
                                                method |-> String(Prop(request, "method")),
                                                params |-> ParamsOrDefault(request)])
                            ELSE calls
                /\ UNCHANGED <<stdout, answers>>
    /\ startTime' = IF doc.method = Str("healthCheck") THEN now ELSE startTime
    /\ UNCHANGED <<files, call, returned, argv, mod, now, lifecycle, exitCode, cause, stderr>>

(***************************************************************************)
(* rl.on('line'): handleLine(line) runs until it returns or suspends.  A   *)
(* line JSON.parse rejects is answered at once; for null the try and the   *)
(* catch block both throw; any other document reaches dispatch, which runs *)
(* up to and including the call of the handler.                            *)
(***************************************************************************)
\* dispatched is what this.dispatch(request.method, request.params ?? {})
\* settles to for the request of the line, invoked the calls of plugin code
\* it makes: none, or one with the name called and the argument passed.
handleLine(doc, dispatched, invoked) ==
    /\ lifecycle = "Ready"
    /\ Len(lines) < MaxLines
    /\ lines' = Append(lines, doc)
    /\ LET i == Len(lines) + 1
           request == JSONparse(doc)
       IN  IF ~doc.valid
           THEN /\ stdout' = writeResponse(stdout, ParseError)
                /\ answers' = Append(answers, i)
                /\ pc' = Append(pc, "done")
                /\ settled' = Append(settled, Return(Undefined, FALSE))
                /\ calls' = calls
           ELSE IF request.isNull
           THEN /\ pc' = Append(pc, "rejected")
                /\ settled' = Append(settled,
                        Throw(TypeError("Cannot read properties of null"), FALSE))
                /\ UNCHANGED <<stdout, answers, calls>>
           ELSE /\ pc' = Append(pc, "await")
                /\ settled' = Append(settled, dispatched)
                /\ calls' = calls \o [c \in DOMAIN invoked |->
                                         [line |-> i,
                                          method |-> invoked[c].method,
                                          params |-> invoked[c].params]]
                /\ UNCHANGED <<stdout, answers>>
    /\ UNCHANGED <<files, call, returned, argv, mod, now, startTime, lifecycle, exitCode, cause, stderr>>

\* A line listener that answers a request whose jsonrpc member is not "2.0"
\* with InvalidRequest.
OnLineChecksTag(doc) ==
    LET request == JSONparse(doc)
    IN  handleLine(doc,
                   IF Prop(request, "jsonrpc") # Str("2.0")
                   THEN Throw(Thrown("Error", Num(INVALID_REQUEST), "Invalid Request"), FALSE)
                   ELSE dispatch(Prop(request, "method"), ParamsOrDefault(request)),
                   IF Prop(request, "jsonrpc") = Str("2.0")
                   THEN Invoked(Prop(request, "method"), ParamsOrDefault(request))
                   ELSE <<>>)

\* The line listener of the handler-map version of the SDK.
OnLine(doc) ==
    LET request == JSONparse(doc)
    IN  handleLine(doc, dispatch(Prop(request, "method"), ParamsOrDefault(request)),
                   Invoked(Prop(request, "method"), ParamsOrDefault(request)))

(***************************************************************************)
(* The continuation of handleLine for line i.  A continuation that is      *)
(* already queued runs before any callback of the event loop, so queued    *)
(* continuations run in the order of their lines and a handler's promise   *)
(* settles only when none is queued.                                       *)
(***************************************************************************)
Resume(i) ==
    /\ lifecycle = "Ready"
    /\ i \in 1..Len(lines)
    /\ pc[i] = "await"
    /\ \A j \in 1..Len(lines) : (j # i /\ Queued(j)) => (Queued(i) /\ j > i)
    /\ LET effect == handleLineResume(JSONparse(lines[i]), settled[i])
       IN  IF effect.kind = "write"
           THEN /\ stdout' = writeResponse(stdout, effect.response)
                /\ answers' = Append(answers, i)
                /\ pc' = [pc EXCEPT ![i] = "done"]
           ELSE /\ pc' = [pc EXCEPT ![i] = "rejected"]
                /\ UNCHANGED <<stdout, answers>>
    /\ UNCHANGED <<files, call, returned, argv, mod, now, startTime, lifecycle, exitCode, cause, lines, settled, stderr, calls>>

\* The rejection of handleLine's promise with no .catch on it: Node ends the
\* process with status 1 on an unhandled rejection.
OnUnhandledCrash(i) ==
    /\ lifecycle = "Ready"
    /\ i \in 1..Len(lines)
    /\ pc[i] = "rejected"
    /\ \A j \in 1..Len(lines) : (j # i /\ Queued(j)) => (Queued(i) /\ j > i)
    /\ pc' = [pc EXCEPT ![i] = "unhandled"]
    /\ lifecycle' = "Stopped"
    /\ exitCode' = 1
    /\ UNCHANGED <<files, call, returned, argv, mod, now, startTime, cause, lines, settled, stdout, answers, stderr, calls>>

\* A .catch callback that swallows the failure: .catch(() => {}).
OnUnhandledSilent(i) ==
    /\ lifecycle = "Ready"
    /\ i \in 1..Len(lines)
    /\ pc[i] = "rejected"
    /\ \A j \in 1..Len(lines) : (j # i /\ Queued(j)) => (Queued(i) /\ j > i)
    /\ pc' = [pc EXCEPT ![i] = "unhandled"]
    /\ UNCHANGED <<files, call, returned, argv, mod, now, startTime, lifecycle, exitCode, cause, lines, settled, stdout, answers, stderr, calls>>

\* A .catch callback that reports on stdout: console.log in place of
\* process.stderr.write.
OnUnhandledToStdout(i) ==
    /\ lifecycle = "Ready"
    /\ i \in 1..Len(lines)
    /\ pc[i] = "rejected"
    /\ \A j \in 1..Len(lines) : (j # i /\ Queued(j)) => (Queued(i) /\ j > i)
    /\ pc' = [pc EXCEPT ![i] = "unhandled"]
    /\ stdout' = Append(stdout, [NoResponse EXCEPT !.jsonrpc = Str("[plugin] Unhandled error")]
                                    @@ [breaks |-> 0, eol |-> 1])
    /\ answers' = Append(answers, i)
    /\ UNCHANGED <<files, call, returned, argv, mod, now, startTime, lifecycle, exitCode, cause, lines, settled, stderr, calls>>

\* .catch((err) => process.stderr.write(`[plugin] Unhandled error: ...`))
OnUnhandled(i) ==
    /\ lifecycle = "Ready"
    /\ i \in 1..Len(lines)
    /\ pc[i] = "rejected"
    /\ \A j \in 1..Len(lines) : (j # i /\ Queued(j)) => (Queued(i) /\ j > i)
    /\ pc' = [pc EXCEPT ![i] = "unhandled"]
    /\ stderr' = Append(stderr, "unhandled")
    /\ UNCHANGED <<files, call, returned, argv, mod, now, startTime, lifecycle, exitCode, cause, lines, settled, stdout, answers, calls>>

\* A close listener that writes its notice and leaves the process running.
OnCloseStays ==
    /\ lifecycle = "Ready"
    /\ \A j \in 1..Len(lines) : Queued(j) => j = Len(lines)
    /\ stderr' = Append(stderr, "stdin closed")
    /\ UNCHANGED <<files, call, returned, argv, mod, now, startTime, lifecycle, exitCode, cause, lines, pc, settled,
                   stdout, answers, calls>>

\* rl.on('close'): the notice, then process.exit(0).  readline emits a last
\* line that has no newline and 'close' in the same callback, so only the
\* last line can still have a queued continuation.
OnClose ==
    /\ lifecycle = "Ready"
    /\ \A j \in 1..Len(lines) : Queued(j) => j = Len(lines)
    /\ lifecycle' = "Stopped"
    /\ exitCode' = 0
    /\ cause' = "close"
    /\ stderr' = Append(stderr, "stdin closed")
    /\ UNCHANGED <<files, call, returned, argv, mod, now, startTime, lines, pc, settled, stdout, answers, calls>>

\* No SIGTERM listener: the signal ends the process, status 143.
OnSigtermDefault ==
    /\ lifecycle = "Ready"
    /\ \A j \in 1..Len(lines) : ~Queued(j)
    /\ lifecycle' = "Stopped"
    /\ exitCode' = 143
    /\ cause' = "SIGTERM"
    /\ UNCHANGED <<files, call, returned, argv, mod, now, startTime, lines, pc, settled, stdout, answers, stderr, calls>>

\* A SIGTERM listener that lets the handlers in flight finish first.
OnSigtermDrain ==
    /\ lifecycle = "Ready"
    /\ \A j \in 1..Len(lines) : pc[j] \notin {"await", "rejected"}
    /\ lifecycle' = "Stopped"
    /\ exitCode' = 0
    /\ cause' = "SIGTERM"
    /\ stderr' = Append(stderr, "SIGTERM received")
    /\ UNCHANGED <<files, call, returned, argv, mod, now, startTime, lines, pc, settled, stdout, answers, calls>>

\* process.on('SIGTERM'): the notice, then process.exit(0).
OnSigterm ==
    /\ lifecycle = "Ready"
    /\ \A j \in 1..Len(lines) : ~Queued(j)
    /\ lifecycle' = "Stopped"
    /\ exitCode' = 0
    /\ cause' = "SIGTERM"
    /\ stderr' = Append(stderr, "SIGTERM received")
    /\ UNCHANGED <<files, call, returned, argv, mod, now, startTime, lines, pc, settled, stdout, answers, calls>>

Next ==
    \/ Main
    \/ Imported
    \/ OnSigtermStarting
    \/ Tick
    \/ SetBack
    \/ \E doc \in Lines : OnLine(doc)
    \/ \E i \in 1..MaxLines : Resume(i)
    \/ \E i \in 1..MaxLines : OnUnhandled(i)
    \/ OnClose
    \/ OnSigterm

Spec == Init /\ [][Next]_vars

(***************************************************************************)
(* The plugin read on lines that differ in their jsonrpc member: "2.0",    *)
(* "1.0", a number, or no such member.                                     *)
(***************************************************************************)
Tags == {Str("2.0"), Str("1.0"), Num(2), Absent}

Tagged(tag, method, params, id) == Doc(TRUE, FALSE, tag, Str(method), params, id)

LinesTagged ==
    {Garbage, NullDoc}
        \cup {Tagged(tag, "getMetadata", Absent, Num(1)) : tag \in Tags}
        \cup {Tagged(tag, "getOutputSchema", Params, Num(3)) : tag \in Tags}
        \cup {Tagged(tag, "sensor", Absent, Str("b")) : tag \in Tags}

NextTagged ==
    \/ Main
    \/ Imported
    \/ OnSigtermStarting
    \/ Tick
    \/ SetBack
    \/ \E doc \in LinesTagged : OnLine(doc)
    \/ \E i \in 1..MaxLines : Resume(i)
    \/ \E i \in 1..MaxLines : OnUnhandled(i)
    \/ OnClose
    \/ OnSigterm

SpecTagged == Init /\ [][NextTagged]_vars

(***************************************************************************)
(* The fixed-method version of the SDK (packages/sdk/src/PayloadPlugin.ts). *)
(* Its config has the member transform and may have transformConfig,       *)
(* getOutputSchema and validate; its dispatch is a switch over the method  *)
(* names.  Constructor, startRpc, handleLine and writeResponse are those   *)
(* of the handler-map version.                                             *)
(***************************************************************************)
Payload == Obj("payload")
NoSchema == Obj("{description:'No schema available',example:null}")
Valid == Obj("{valid:true}")

\* A plugin that has transform only, and one that has all four members.
TransformOnly == [transform |-> Return(Payload, TRUE)]
AllFour ==
    [ transform |-> Return(Payload, TRUE),
      transformConfig |-> Return(Payload, TRUE),
      getOutputSchema |-> Return(Schema, TRUE),
      validate |-> Return(Obj("{valid:false}"), TRUE) ]

\* if (this.config.member)
Has(member) == member \in DOMAIN mod.handlers

dispatchFixed(method, params) ==
    CASE method = Str("getMetadata") -> Return(Metadata, FALSE)
      [] method = Str("transform") -> mod.handlers["transform"]
      [] method = Str("transformConfig") ->
            IF Has("transformConfig") THEN mod.handlers["transformConfig"]
            ELSE Throw(Thrown("Error", Num(METHOD_NOT_FOUND),
                              "transformConfig not implemented"), FALSE)
      [] method = Str("getOutputSchema") ->
            IF Has("getOutputSchema") THEN mod.handlers["getOutputSchema"]
            ELSE Return(NoSchema, FALSE)
      [] method = Str("validate") ->
            IF Has("validate") THEN mod.handlers["validate"]
            ELSE Return(Valid, FALSE)
      [] method = Str("healthCheck") ->
            Return(Health((now - startTime) \div 1000), FALSE)
      [] OTHER -> Throw(MethodNotFound(method), FALSE)

\* TRUE when dispatchFixed calls a member of the config.
InvokesMember(method) ==
    \/ method = Str("transform")
    \/ /\ method \in {Str("transformConfig"), Str("getOutputSchema"), Str("validate")}
       /\ Has(method.v)

\* The calls dispatchFixed makes: transform and transformConfig get the
\* params, getOutputSchema gets params.profile, validate params.config ?? {}.
\* Params is {profile: "quad"}; every other params of this module has no
\* member of either name.
InvokedFixed(method, params) ==
    LET profile == IF params = Params THEN Str("quad") ELSE Undefined
        config == Undefined
    IN  IF ~InvokesMember(method) THEN <<>>
        ELSE IF method = Str("getOutputSchema")
        THEN <<[method |-> "getOutputSchema", params |-> profile]>>
        ELSE IF method = Str("validate")
        THEN <<[method |-> "validate",
                params |-> IF config.t \in {"null", "undefined"} THEN Obj("{}") ELSE config]>>
        ELSE <<[method |-> method.v, params |-> params]>>

LinesFixed ==
    { Garbage, NullDoc,
      Request("transform", Params, Num(1)),
      Request("transformConfig", Params, Num(2)),
      Request("transformConfig", Params, HugeLiteral),
      Request("getOutputSchema", Params, Num(3)),
      Request("getOutputSchema", Absent, Str("c")),
      Request("validate", Params, Num(4)),
      Request("getMetadata", Absent, Num(5)),
      Request("healthCheck", Absent, Num(6)),
      Request("doesNotExist", Absent, Num(7)) }

\* The line listener of the fixed-method version.
OnLineFixed(doc) ==
    LET request == JSONparse(doc)
    IN  handleLine(doc, dispatchFixed(Prop(request, "method"), ParamsOrDefault(request)),
                   InvokedFixed(Prop(request, "method"), ParamsOrDefault(request)))

InitFixed ==
    /\ argv = Str("dist/index.js")
    /\ mod \in { Module(TRUE, TRUE, AcmeWidgetV2, TransformOnly),
                 Module(TRUE, TRUE, AcmeWidgetV2, AllFour) }
    /\ Started

NextFixed ==
    \/ Main
    \/ Imported
    \/ OnSigtermStarting
    \/ Tick
    \/ SetBack
    \/ \E doc \in LinesFixed : OnLineFixed(doc)
    \/ \E i \in 1..MaxLines : Resume(i)
    \/ \E i \in 1..MaxLines : OnUnhandled(i)
    \/ OnClose
    \/ OnSigterm

SpecFixed == InitFixed /\ [][NextFixed]_vars

\* The constructor tried on every name of Names, the rest of the start as in
\* the sample plugin.
InitNames ==
    /\ argv = Str("dist/index.js")
    /\ \E name \in Names : mod = Module(TRUE, TRUE, name, NoHandlers)
    /\ Started

SpecNames == InitNames /\ [][Main \/ Imported]_vars

(***************************************************************************)
(* JavaScript objects as the helpers below use them: the own enumerable    *)
(* properties in the order Object.entries lists them, the prototype (<<>>  *)
(* for Object.prototype, <<p>> once it has been replaced by p), and t, the *)
(* result of typeof.                                                       *)
(* Property names that look like array indices, which Object.entries       *)
(* lists first, are not among the names used here.                         *)
(***************************************************************************)
MaxSensors == 2
MaxTags == 2

Entry(key, value) == [key |-> key, value |-> value]
EmptyObject == [t |-> "object", entries |-> <<>>, proto |-> <<>>]
Keys(object) == {object.entries[i].key : i \in DOMAIN object.entries}
Get(object, key) ==
    object.entries[CHOOSE i \in DOMAIN object.entries : object.entries[i].key = key].value

\* object[key] = value on an ordinary object: the name "__proto__" is the
\* accessor inherited from Object.prototype, whose setter replaces the
\* prototype when value is an object or null and does nothing otherwise; in
\* both cases no own property is created.
Set(object, key, value) ==
    IF key = "__proto__"
    THEN IF value.t \in {"object", "null"}
         THEN [object EXCEPT !.proto = <<value>>]
         ELSE object
    ELSE IF key \in Keys(object)
         THEN [object EXCEPT !.entries =
                  [i \in DOMAIN @ |-> IF @[i].key = key THEN Entry(key, value) ELSE @[i]]]
         ELSE [object EXCEPT !.entries = Append(@, Entry(key, value))]

\* Sequences of at most n elements of S, and those without a repeated key.
SeqUpTo(S, n) == UNION {[1..m -> S] : m \in 0..n}
DistinctKeys(entries) ==
    \A i, j \in DOMAIN entries : entries[i].key = entries[j].key => i = j

\* Objects as JSON.parse builds them: every member of the text, "__proto__"
\* included, becomes an own property.
Parsed(keys, values, n) ==
    {[t |-> "object", entries |-> e, proto |-> <<>>] :
        e \in {q \in SeqUpTo({Entry(k, v) : k \in keys, v \in values}, n) : DistinctKeys(q)}}

(***************************************************************************)
(* filterSensorsByTags (payload-sdk helpers)                               *)
(***************************************************************************)
RECURSIVE FilterLoop(_, _, _)
FilterLoop(entries, tagSet, result) ==
    IF entries = <<>>
    THEN result
    ELSE LET tag == Head(entries).key
             sensor == Head(entries).value
         IN  FilterLoop(Tail(entries), tagSet,
                        IF tag \in tagSet THEN Set(result, tag, sensor) ELSE result)

filterSensorsByTags(sensors, tags) ==
    LET tagSet == {tags[i] : i \in DOMAIN tags}
    IN  FilterLoop(sensors.entries, tagSet, EmptyObject)

SensorTags == {"cpu_temp", "memory_used", "__proto__"}
SensorRecords ==
    Parsed(SensorTags,
           {Obj("{value: 72, unit: 'C'}"), Obj("{value: 16384, unit: 'MB'}")},
           MaxSensors)

\* filterSensorsByTags(sensors, tags) is called; it reads sensors and tags
\* and writes to neither.
Filter(sensors, tags) ==
    /\ call' = [fn |-> "filterSensorsByTags", sensors |-> sensors, tags |-> tags,
                after |-> sensors]
    /\ returned' = filterSensorsByTags(sensors, tags)
    /\ UNCHANGED <<files, argv, mod, now, startTime, lifecycle, exitCode, cause, lines, pc,
                   settled, stdout, answers, stderr, calls>>

FilterFresh ==
    /\ call = NoCall
    /\ \E sensors \in SensorRecords,
          tags \in SeqUpTo(SensorTags \cup {"gpu_temp"}, MaxTags) : Filter(sensors, tags)

\* The result of a call is filtered again with the same tags.
FilterAgain ==
    /\ call.fn = "filterSensorsByTags"
    /\ Filter(returned, call.tags)

InitHelpers ==
    /\ argv = Undefined
    /\ mod = Module(FALSE, FALSE, AcmeWidgetV2, NoHandlers)
    /\ Started

NextFilter == FilterFresh \/ FilterAgain

SpecFilter == InitHelpers /\ [][NextFilter]_vars

(***************************************************************************)
(* The jr-protocol plugin (plugins/junctionrelay.jr-protocol/src/index.ts). *)
(***************************************************************************)

\* object.key: the own property, undefined when there is none (none of the
\* names read below is a member of Object.prototype).
Field(object, key) == IF key \in Keys(object) THEN Get(object, key) ELSE Undefined

\* An object literal.
Literal(entries) == [t |-> "object", entries |-> entries, proto |-> <<>>]

\* An array.
Array(items) == [t |-> "object", items |-> items]

\* a ?? b and a || b.
Coalesce(a, b) == IF a.t \in {"null", "undefined"} THEN b ELSE a
Falsy(x) ==
    \/ x.t \in {"null", "undefined"}
    \/ x = False
    \/ x = Str("")
    \/ x = Num(0)
    \/ x = NaN
Or(a, b) == IF Falsy(a) THEN b ELSE a

HOST_KEYS == {"fieldsToSend"}

\* value === false || value === 0 || value === '' || value == null
Skipped(value) ==
    \/ value = False
    \/ value = Num(0)
    \/ value = Str("")
    \/ value.t \in {"null", "undefined"}

RECURSIVE SettingsLoop(_, _)
SettingsLoop(entries, settings) ==
    IF entries = <<>>
    THEN settings
    ELSE LET key == Head(entries).key
             value == Head(entries).value
         IN  SettingsLoop(Tail(entries),
                          IF key \in HOST_KEYS \/ Skipped(value)
                          THEN settings
                          ELSE Set(settings, key, value))

buildSettings(config) == SettingsLoop(config.entries, EmptyObject)

\* Sensors as a host sends them.
CpuTemp == Literal(<<Entry("value", Num(72)), Entry("unit", Str("C"))>>)
Switch ==
    Literal(<<Entry("value", Str("on")), Entry("unit", JsNull), Entry("name", JsNull)>>)

\* context of the handler parameters.
ScreenId == Str("default")

\* Object.entries(sensors).map(([tag, s]) => ({id: tag, label: tag, unit: s.unit || ''}))
Layout(sensors) ==
    [i \in DOMAIN sensors.entries |->
        [id |-> sensors.entries[i].key,
         label |-> sensors.entries[i].key,
         unit |-> Or(Field(sensors.entries[i].value, "unit"), Str(""))]]

\* handlers.config
config(sensors, settingsOf, profile) ==
    [payload |-> [type |-> "config",
                  screenId |-> ScreenId,
                  profile |-> Coalesce(profile, Str("lvgl-grid")),
                  settings |-> buildSettings(settingsOf),
                  layout |-> Layout(sensors)],
     contentType |-> "application/json"]

MaxSettings == 2
Configs ==
    Parsed({"rows", "textColor", "fieldsToSend", "__proto__"},
           {False, Val("boolean", "true", 0), Num(0), Num(2), Str(""), Str("#FFFF00"),
            JsNull, Undefined, NaN},
           MaxSettings)
ConfigSensors ==
    {Literal(<<>>), Literal(<<Entry("cpu_temp", CpuTemp), Entry("switch", Switch)>>)}

\* The host calls the config handler; the handler keeps no state, so one
\* call from the initial state stands for every call.
ConfigHandler ==
    /\ call = NoCall
    /\ \E sensors \in ConfigSensors, settingsOf \in Configs,
          profile \in {Undefined, Str("quad")} :
          /\ call' = [fn |-> "config", sensors |-> sensors, config |-> settingsOf,
                      profile |-> profile]
          /\ returned' = config(sensors, settingsOf, profile)
    /\ UNCHANGED <<files, argv, mod, now, startTime, lifecycle, exitCode, cause, lines, pc,
                   settled, stdout, answers, stderr, calls>>

SpecConfig == InitHelpers /\ [][ConfigHandler]_vars

(***************************************************************************)
(* Strings that the plugin takes apart are sequences of pieces: a piece is *)
(* a comma, a blank, or a run of other characters, and the text of the     *)
(* string is the pieces written one after another.                         *)
(***************************************************************************)
MaxPieces == 3
MaxItems == 2

Pieced(pieces) == [t |-> "string", pieces |-> pieces]

\* toLowerCase: on a string it works piece by piece.
toLowerCase(pieces) == [i \in DOMAIN pieces |-> LowerCase(pieces[i])]

\* trim(): the blanks at both ends are dropped.
RECURSIVE trimStart(_)
trimStart(pieces) ==
    IF pieces # <<>> /\ Head(pieces) = " " THEN trimStart(Tail(pieces)) ELSE pieces

RECURSIVE trimEnd(_)
trimEnd(pieces) ==
    IF pieces # <<>> /\ pieces[Len(pieces)] = " "
    THEN trimEnd(SubSeq(pieces, 1, Len(pieces) - 1))
    ELSE pieces

trim(pieces) == trimEnd(trimStart(pieces))

\* split(','): the parts between the commas, empty parts included.
RECURSIVE split(_, _)
split(pieces, part) ==
    IF pieces = <<>>
    THEN <<part>>
    ELSE IF Head(pieces) = ","
         THEN <<part>> \o split(Tail(pieces), <<>>)
         ELSE split(Tail(pieces), Append(part, Head(pieces)))

\* n zeros.
RECURSIVE Zeros(_)
Zeros(n) == IF n = 0 THEN "" ELSE "0" \o Zeros(n - 1)

\* Number.prototype.toFixed on an integer: a digits argument outside 0..100
\* is a RangeError.
RangeError == Thrown("RangeError", Undefined, "toFixed() digits argument must be between 0 and 100")
toFixedThrows(dp) == dp.v # "NaN" /\ (dp.v = "Infinity" \/ dp.n < 0 \/ dp.n > 100)
toFixed(val, dp) ==
    IF val.v # "finite" THEN val.v
    ELSE LET digits == IF dp.v = "NaN" THEN 0 ELSE dp.n
         IN  String(val) \o (IF digits = 0 THEN "" ELSE "." \o Zeros(digits))

\* parseFieldsToSend(config)
parseFieldsToSend(settingsOf) ==
    LET raw == Field(settingsOf, "fieldsToSend")
    IN  IF "items" \in DOMAIN raw /\ Len(raw.items) > 0
        THEN [i \in DOMAIN raw.items |->
                 Concat(toLowerCase(StringPieces(raw.items[i])))]
        ELSE IF raw.t = "string" /\ trim(raw.pieces) # <<>>
             THEN LET parts == split(raw.pieces, <<>>)
                  IN  [i \in DOMAIN parts |-> Concat(toLowerCase(trim(parts[i])))]
             ELSE <<"value", "unit">>

\* The optional fields of buildSensorData: the case label and the property
\* it copies.
OptionalFields ==
    [decimalplaces |-> "decimalPlaces", displayvalue |-> "displayValue",
     id |-> "id", originalid |-> "originalId", name |-> "name",
     externalid |-> "externalId", sensortype |-> "sensorType",
     category |-> "category", componentname |-> "componentName",
     devicename |-> "deviceName", formula |-> "formula",
     lastupdated |-> "lastUpdated", junctionid |-> "junctionId",
     junctiondevicelinkid |-> "junctionDeviceLinkId",
     junctioncollectorlinkid |-> "junctionCollectorLinkId",
     deviceid |-> "deviceId", serviceid |-> "serviceId",
     collectorid |-> "collectorId", sensororder |-> "sensorOrder",
     mqttserviceid |-> "mqttServiceId", mqtttopic |-> "mqttTopic",
     mqttqos |-> "mqttQoS", ismissing |-> "isMissing", isstale |-> "isStale",
     isselected |-> "isSelected", isvisible |-> "isVisible",
     customattribute1 |-> "customAttribute1",
     customattribute2 |-> "customAttribute2",
     customattribute3 |-> "customAttribute3",
     customattribute4 |-> "customAttribute4",
     customattribute5 |-> "customAttribute5",
     customattribute6 |-> "customAttribute6",
     customattribute7 |-> "customAttribute7",
     customattribute8 |-> "customAttribute8",
     customattribute9 |-> "customAttribute9",
     customattribute10 |-> "customAttribute10",
     pollersource |-> "pollerSource", rawlabel |-> "rawLabel"]

\* One turn of the loop of buildSensorData, for a sensor on which the value
\* case does not throw.
Case(sensor, field, entry) ==
    CASE field = "value" ->
            LET val == Field(sensor, "value")
                dp == IF Field(sensor, "decimalPlaces").t = "number"
                      THEN Field(sensor, "decimalPlaces")
                      ELSE Num(2)
            IN  Set(entry, "value",
                    Str(IF val.t = "number" THEN toFixed(val, dp) ELSE String(val)))
      [] field = "unit" ->
            Set(entry, "unit", Coalesce(Field(sensor, "unit"), Str("")))
      [] field \in DOMAIN OptionalFields ->
            LET property == OptionalFields[field]
            IN  IF Field(sensor, property).t \notin {"null", "undefined"}
                THEN Set(entry, property, Field(sensor, property))
                ELSE entry
      [] OTHER -> entry

RECURSIVE FieldsLoop(_, _, _)
FieldsLoop(sensor, fields, entry) ==
    IF fields = <<>>
    THEN entry
    ELSE FieldsLoop(sensor, Tail(fields), Case(sensor, Head(fields), entry))

\* buildSensorData(sensor, fields) throws: the value case calls toFixed with
\* a digits argument it does not accept.
buildSensorDataThrows(sensor, fields) ==
    /\ \E i \in DOMAIN fields : fields[i] = "value"
    /\ Field(sensor, "value").t = "number"
    /\ Field(sensor, "decimalPlaces").t = "number"
    /\ toFixedThrows(Field(sensor, "decimalPlaces"))

buildSensorData(sensor, fields) == FieldsLoop(sensor, fields, EmptyObject)

RECURSIVE SensorLoop(_, _, _)
SensorLoop(entries, fields, sensorDict) ==
    IF entries = <<>>
    THEN sensorDict
    ELSE LET tag == Head(entries).key
             sensor == Head(entries).value
         IN  SensorLoop(Tail(entries), fields,
                        Set(sensorDict, tag, Array(<<buildSensorData(sensor, fields)>>)))

\* handlers.sensor
sensor(sensors, settingsOf) ==
    LET fields == parseFieldsToSend(settingsOf)
    IN  IF \E i \in DOMAIN sensors.entries :
               buildSensorDataThrows(sensors.entries[i].value, fields)
        THEN Throw(RangeError, TRUE)
        ELSE Return([payload |-> [type |-> "sensor",
                                  screenId |-> ScreenId,
                                  sensors |-> SensorLoop(sensors.entries, fields, EmptyObject)],
                     contentType |-> "application/json"], TRUE)

\* A sensor whose decimalPlaces toFixed does not accept.
Overprecise == Literal(<<Entry("value", Num(5)), Entry("decimalPlaces", Num(101))>>)

HandlerSensors ==
    {Literal(e) :
        e \in {q \in SeqUpTo({Entry(k, v) : k \in {"cpu_temp", "__proto__"},
                                            v \in {CpuTemp, Switch, Overprecise,
                                                   Literal(<<Entry("value", Num(16384)),
                                                             Entry("unit", Str("MB")),
                                                             Entry("decimalPlaces", Num(0)),
                                                             Entry("name", Str("Memory"))>>)}},
                             MaxSensors) : DistinctKeys(q)}}

\* config.fieldsToSend: an array of the checkbox group, the legacy
\* comma-separated string, or no such member.
FieldsToSend ==
    {Pieced(p) : p \in SeqUpTo({"Value", "unit", "decimalPlaces", ",", " "}, MaxPieces)}
        \cup {Array(a) :
                 a \in SeqUpTo({Pieced(<<"Value">>), Pieced(<<"unit">>),
                                Pieced(<<" ", "unit">>), Pieced(<<"decimalPlaces">>),
                                JsNull, NaN, Array(<<Pieced(<<"Value">>)>>)},
                               MaxItems)}
SensorConfigs ==
    {Literal(<<>>)} \cup {Literal(<<Entry("fieldsToSend", raw)>>) : raw \in FieldsToSend}

\* The host calls the sensor handler; the handler keeps no state.
SensorHandler ==
    /\ call = NoCall
    /\ \E sensors \in HandlerSensors, settingsOf \in SensorConfigs :
          /\ call' = [fn |-> "sensor", sensors |-> sensors, config |-> settingsOf]
          /\ returned' = sensor(sensors, settingsOf)
    /\ UNCHANGED <<files, argv, mod, now, startTime, lifecycle, exitCode, cause, lines, pc,
                   settled, stdout, answers, stderr, calls>>

SpecSensor == InitHelpers /\ [][SensorHandler]_vars

(***************************************************************************)
(* scripts/pack.mjs: the ZIP writer.  A buffer is the sequence of its      *)
(* bytes.  Every record is allocated at its full length and written field  *)
(* by field at adjoining positions, so it is the fields one after another. *)
(***************************************************************************)
\* The RangeError of a write whose value the field cannot hold.  (Node
\* writes a received value beyond 2^32 with separators, 4_294_967_297; the
\* integers here end before that.)
ERR_OUT_OF_RANGE(max, received) ==
    Thrown("RangeError", Str("ERR_OUT_OF_RANGE"),
           "The value of \"value\" is out of range. It must be >= 0 and <= " \o max
               \o ". Received " \o Decimal(received))

\* buf.writeUInt16LE(value), buf.writeUInt32LE(value): what the write throws
\* (nothing, or the one RangeError), and the bytes it writes, little-endian.
OutOfRange16(value) ==
    IF value > 65535 THEN <<ERR_OUT_OF_RANGE("65535", value)>> ELSE <<>>
OutOfRange32(value) ==
    IF value \div 65536 > 65535 THEN <<ERR_OUT_OF_RANGE("4294967295", value)>> ELSE <<>>
writeUInt16LE(value) == <<value % 256, value \div 256>>
writeUInt32LE(value) ==
    <<value % 256, (value \div 256) % 256, (value \div 65536) % 256, value \div 16777216>>

\* The signatures 0x04034b50, 0x02014b50 and 0x06054b50.
LocalSignature == 67324752
CentralSignature == 33639248
EndSignature == 101010256

\* An entry: the bytes of its name, and of its data the length, the crc32
\* and the length of what deflateRawSync makes of it.  The compressed bytes
\* themselves stand as zeros: the layout depends on their number only.
ZipEntry(name, size, crc, deflated) ==
    [name |-> name, size |-> size, crc |-> crc, deflated |-> deflated]
Compressed(entry) == [i \in 1..entry.deflated |-> 0]

\* Local file header, name and compressed data.
Local(entry) ==
    writeUInt32LE(LocalSignature) \o writeUInt16LE(20) \o writeUInt16LE(0)
        \o writeUInt16LE(8) \o writeUInt16LE(0) \o writeUInt16LE(0)
        \o writeUInt32LE(entry.crc) \o writeUInt32LE(entry.deflated)
        \o writeUInt32LE(entry.size) \o writeUInt16LE(Len(entry.name))
        \o writeUInt16LE(0) \o entry.name \o Compressed(entry)

\* A central directory header that stores the offset of the record after
\* its own local record.
CentralPastEntry(entry, offset) ==
    writeUInt32LE(CentralSignature) \o writeUInt16LE(20) \o writeUInt16LE(20)
        \o writeUInt16LE(0) \o writeUInt16LE(8) \o writeUInt16LE(0) \o writeUInt16LE(0)
        \o writeUInt32LE(entry.crc) \o writeUInt32LE(entry.deflated)
        \o writeUInt32LE(entry.size) \o writeUInt16LE(Len(entry.name))
        \o writeUInt16LE(0) \o writeUInt16LE(0) \o writeUInt16LE(0) \o writeUInt16LE(0)
        \o writeUInt32LE(0) \o writeUInt32LE(offset + Len(Local(entry))) \o entry.name

\* Central directory header and name.
Central(entry, offset) ==
    writeUInt32LE(CentralSignature) \o writeUInt16LE(20) \o writeUInt16LE(20)
        \o writeUInt16LE(0) \o writeUInt16LE(8) \o writeUInt16LE(0) \o writeUInt16LE(0)
        \o writeUInt32LE(entry.crc) \o writeUInt32LE(entry.deflated)
        \o writeUInt32LE(entry.size) \o writeUInt16LE(Len(entry.name))
        \o writeUInt16LE(0) \o writeUInt16LE(0) \o writeUInt16LE(0) \o writeUInt16LE(0)
        \o writeUInt32LE(0) \o writeUInt32LE(offset) \o entry.name

\* The loop of createZip: localHeaders and centralHeaders are the records
\* pushed so far, each list already joined as Buffer.concat joins it.
RECURSIVE ZipLoop(_, _, _, _)
ZipLoop(entries, offset, localHeaders, centralHeaders) ==
    IF entries = <<>>
    THEN [offset |-> offset, localHeaders |-> localHeaders,
          centralHeaders |-> centralHeaders]
    ELSE LET local == Local(Head(entries))
             central == Central(Head(entries), offset)
         IN  ZipLoop(Tail(entries), offset + Len(local),
                     localHeaders \o local, centralHeaders \o central)

\* What the writes of the loop throw, in the order of the writes: for every
\* entry crc, compressed size, size and name length (local record, and the
\* same values again in the central record), then the offset.
RECURSIVE createZipThrows(_, _)
createZipThrows(entries, offset) ==
    IF entries = <<>>
    THEN <<>>
    ELSE LET entry == Head(entries)
             thrown == OutOfRange32(entry.crc) \o OutOfRange32(entry.deflated)
                           \o OutOfRange32(entry.size) \o OutOfRange16(Len(entry.name))
                           \o OutOfRange32(offset)
         IN  IF thrown # <<>> THEN thrown
             ELSE createZipThrows(Tail(entries), offset + Len(Local(entry)))

createZip(entries) ==
    LET built == ZipLoop(entries, 0, <<>>, <<>>)
        centralDirOffset == built.offset
        centralDirSize == Len(built.centralHeaders)
        eocd == writeUInt32LE(EndSignature) \o writeUInt16LE(0) \o writeUInt16LE(0)
                    \o writeUInt16LE(Len(entries)) \o writeUInt16LE(Len(entries))
                    \o writeUInt32LE(centralDirSize) \o writeUInt32LE(centralDirOffset)
                    \o writeUInt16LE(0)
        inLoop == createZipThrows(entries, 0)
        atEnd == OutOfRange16(Len(entries)) \o OutOfRange32(centralDirSize)
                     \o OutOfRange32(centralDirOffset)
    IN  IF inLoop # <<>> THEN Throw(Head(inLoop), FALSE)
        ELSE IF atEnd # <<>> THEN Throw(Head(atEnd), FALSE)
        ELSE Return(built.localHeaders \o built.centralHeaders \o eocd, FALSE)

\* junctionrelay.payloadName of package.json: its text (a character beyond
\* ASCII written as in JavaScript source) and Buffer.from(text, 'utf8').
PluginNames ==
    [a |-> [text |-> "a.b", bytes |-> <<97, 46, 98>>],
     jr |-> [text |-> "jr.demo", bytes |-> <<106, 114, 46, 100, 101, 109, 111>>],
     cafe |-> [text |-> "caf\\u00e9.x", bytes |-> <<99, 97, 102, 195, 169, 46, 120>>],
     no |-> [text |-> "no/dir", bytes |-> <<110, 111, 47, 100, 105, 114>>]]

\* "/package.json" and "/dist/index.js" as bytes.
PackageJson == <<47, 112, 97, 99, 107, 97, 103, 101, 46, 106, 115, 111, 110>>
DistIndexJs == <<47, 100, 105, 115, 116, 47, 105, 110, 100, 101, 120, 46, 106, 115>>

\* package.json in the plugin directory: none, an empty file, {} (no
\* payloadName), or a file that names the plugin, given by its length, its
\* crc32 and the length deflateRawSync makes of it.  The files are
\* {"junctionrelay":{"payloadName":"<name>"}}, followed by a blank for a.b,
\* by a line feed for jr.demo and no/dir, by nothing or a line feed for
\* café.x; a 48-byte file for a.b and a 700-byte file for jr.demo as measured
\* on the script.  (Files whose crc32 is below 2^31.)
PackageFiles ==
    {[kind |-> "none"], [kind |-> "empty"], [kind |-> "unnamed"]}
        \cup {[kind |-> "named", pluginName |-> PluginNames[f[1]],
               size |-> f[2], crc |-> f[3], deflated |-> f[4]] :
                 f \in {<<"a", 40, 514708358, 42>>, <<"a", 48, 226964645, 44>>,
                        <<"jr", 44, 1901131031, 46>>, <<"jr", 700, 367844429, 299>>,
                        <<"cafe", 43, 1266752734, 45>>, <<"cafe", 44, 1408727132, 46>>,
                        <<"no", 43, 593045104, 45>>}}

\* dist/index.js: none, a directory, or a file.  The files are the first
\* 0, 2, 3, 5, 6, 7, 8, 10, 12, 13, 14, 15, 16, 21, 22 and all 76 bytes of
\*   export default{metadata:{displayName:"Acme"},handlers:{config:f,sensor:g}};
\* with its line feed (no three bytes occur twice in it, so deflate writes
\* the bytes one by one), and a file of 70000 bytes as measured on the script.
DistFiles ==
    {[kind |-> "none"], [kind |-> "directory"]}
        \cup {[kind |-> "file", size |-> f[1], crc |-> f[2], deflated |-> f[3]] :
                 f \in {<<0, 0, 2>>, <<2, 126710803, 4>>, <<3, 113136155, 5>>,
                        <<5, 837060731, 7>>, <<6, 1116477076, 8>>, <<7, 508302350, 9>>,
                        <<8, 2138778591, 10>>, <<10, 1469978267, 12>>,
                        <<12, 2066840756, 14>>, <<13, 1517388823, 15>>,
                        <<14, 115584747, 16>>, <<15, 571187047, 17>>,
                        <<16, 854920460, 18>>, <<21, 1752806919, 23>>,
                        <<22, 459716285, 24>>, <<76, 1965273229, 76>>,
                        <<70000, 609216634, 299>>}}

\* The script, run in the plugin directory /srv/plugins/acme.  It reads
\* package.json, checks the name and dist/index.js, reads both files, builds
\* the archive, writes it as <payloadName>.zip and reports.  An exception
\* (a file that cannot be read or written, JSON.parse, createZip) is caught by
\* nothing: Node reports it on stderr and the process ends with status 1.
Pack ==
    /\ call = NoCall
    /\ lifecycle = "Starting"
    /\ \E package \in PackageFiles, dist \in DistFiles :
          LET pluginName == package.pluginName
              entries == <<ZipEntry(pluginName.bytes \o PackageJson,
                                    package.size, package.crc, package.deflated),
                           ZipEntry(pluginName.bytes \o DistIndexJs,
                                    dist.size, dist.crc, dist.deflated)>>
              zipData == createZip(entries)
              zipFile == "/srv/plugins/acme/" \o pluginName.text \o ".zip"
          IN  IF package.kind = "none"
              THEN /\ Exit1("uncaught", "ENOENT: no such file or directory, "
                                            \o "open '/srv/plugins/acme/package.json'")
                   /\ UNCHANGED <<call, returned, files, stdout>>
              ELSE IF package.kind = "empty"
              THEN /\ Exit1("uncaught", "Unexpected end of JSON input")
                   /\ UNCHANGED <<call, returned, files, stdout>>
              ELSE IF package.kind = "unnamed"
              THEN /\ Exit1("pack", "ERROR: package.json missing junctionrelay.payloadName")
                   /\ UNCHANGED <<call, returned, files, stdout>>
              ELSE IF dist.kind = "none"
              THEN /\ Exit1("pack", "ERROR: dist/index.js not found \\u2014 run "
                                        \o "\"npm run build\" first")
                   /\ UNCHANGED <<call, returned, files, stdout>>
              ELSE IF dist.kind = "directory"
              THEN /\ Exit1("uncaught", "EISDIR: illegal operation on a directory, read")
                   /\ UNCHANGED <<call, returned, files, stdout>>
              ELSE /\ call' = [fn |-> "createZip", entries |-> entries]
                   /\ returned' = zipData
                   /\ IF zipData.kind = "throw"
                      THEN /\ Exit1("uncaught", zipData.err.message)
                           /\ UNCHANGED <<files, stdout>>
                      ELSE IF \E i \in DOMAIN pluginName.bytes : pluginName.bytes[i] = 47
                      THEN \* writeFileSync: the directory of zipFile is not there
                           /\ Exit1("uncaught", "ENOENT: no such file or directory, open '"
                                                    \o zipFile \o "'")
                           /\ UNCHANGED <<files, stdout>>
                      ELSE /\ files' = Append(files, [path |-> zipFile, data |-> zipData.value])
                           /\ stdout' = Append(stdout, "Packed: " \o pluginName.text \o ".zip ("
                                                           \o Decimal(Len(entries)) \o " files)")
                           /\ lifecycle' = "Stopped"
                           /\ exitCode' = 0
                           /\ cause' = "end"
                           /\ UNCHANGED <<startTime, stderr>>
    /\ UNCHANGED <<argv, mod, now, lines, pc, settled, answers, calls>>

SpecPack == InitHelpers /\ [][Pack]_vars

(***************************************************************************)
(* Vocabulary of the properties.                                           *)
(***************************************************************************)
Read == 1..Len(lines)
Emitted == 1..Len(stdout)

\* The positions in stdout of the responses to line i.
ResponsesTo(i) == {k \in Emitted : answers[k] = i}

\* Line i was decoded to a request object.
Decoded(i) == lines[i].valid /\ ~lines[i].isNull

\* Line i started a handler of the plugin that has not settled yet.
HandlerInFlight(i) == pc[i] = "await" /\ settled[i].async

\* handleLine has finished for line i.
Finished(i) == pc[i] \in {"done", "unhandled"}

\* C1: responses are written in the order their request lines were read.
C1_ResponsesInReadOrder ==
    \A a, b \in Emitted : a < b => answers[a] < answers[b]

\* C2: at most one handler invocation is in flight at any time.
C2_OneHandlerInFlight ==
    Cardinality({i \in Read : HandlerInFlight(i)}) <= 1

\* C3: once a line has been processed, exactly one response line has been
\* written for it, and never more than one for any line.
C3_OneResponsePerLine ==
    \A i \in Read :
        /\ Cardinality(ResponsesTo(i)) <= 1
        /\ Finished(i) => Cardinality(ResponsesTo(i)) = 1

\* C4: when the process exits because the input stream closed, every line
\* read before has been processed to its end.
C4_CloseDrainsInFlight ==
    (lifecycle = "Stopped" /\ cause = "close") => \A i \in Read : Finished(i)

\* The requests of Lines that are well formed and whose handler succeeds,
\* with the response line each one calls for.
GoodMetadata == Request("getMetadata", Absent, Num(1))
GoodSchema == Request("getOutputSchema", Params, Num(3))
MetadataAnswer ==
    [jsonrpc |-> Str("2.0"), id |-> Num(1), result |-> Obj("metadata"),
     error |-> FALSE, code |-> Absent, message |-> Absent, breaks |-> 0, eol |-> 1]
SchemaAnswer ==
    [jsonrpc |-> Str("2.0"), id |-> Num(3), result |-> Obj("schema"),
     error |-> FALSE, code |-> Absent, message |-> Absent, breaks |-> 0, eol |-> 1]

\* Lines that are malformed, name an unknown method or make a handler fail.
Troublesome(doc) ==
    \/ ~doc.valid
    \/ doc.isNull
    \/ doc.method \in {Str("doesNotExist"), Str("sensor"), Str("stop"),
                       Str("file"), Str("text"), Str("validate"), Str("layout"),
                       Str("blank"), Str("format"), Str("decode")}

AnsweredCorrectly ==
    \A k \in Emitted :
        /\ lines[answers[k]] = GoodMetadata => stdout[k] = MetadataAnswer
        /\ (lines[answers[k]] = GoodSchema /\ "getOutputSchema" \in DOMAIN mod.handlers)
              => stdout[k] = SchemaAnswer

LeavesReadyOnlyByShutdown ==
    (lifecycle = "Ready" /\ lifecycle' # "Ready")
        => (lifecycle' = "Stopped" /\ cause' \in {"close", "SIGTERM"} /\ exitCode' = 0)

\* C5: no input line ends the session: the plugin leaves Ready only through
\* the close listener or the SIGTERM listener, and a well-formed request is
\* answered with its own result whatever lines came before it.
C5_NoLineEndsSession ==
    /\ []((lifecycle = "Stopped" /\ lines # <<>>) => cause \in {"close", "SIGTERM"})
    /\ []AnsweredCorrectly
    /\ [][LeavesReadyOnlyByShutdown]_vars

\* C5 witness: after a troublesome line the plugin is still Ready and has
\* answered a later well-formed request.
C5_Witness ==
    /\ lifecycle = "Ready"
    /\ \E i, j \in Read :
        /\ i < j
        /\ Troublesome(lines[i]) /\ Finished(i)
        /\ lines[j] \in {GoodMetadata, GoodSchema}
        /\ pc[j] = "done"

\* C6: a line that is not valid JSON gets exactly one response, an error with
\* code -32700 and id 0, no handler is invoked for it, and the process keeps
\* running.
C6_ParseErrorResponse ==
    \A i \in Read :
        ~lines[i].valid =>
            /\ Cardinality(ResponsesTo(i)) = 1
            /\ \A k \in ResponsesTo(i) :
                  /\ stdout[k].error
                  /\ stdout[k].code = Num(-32700)
                  /\ stdout[k].id = Num(0)
                  /\ stdout[k].result = Absent
            /\ \A c \in 1..Len(calls) : calls[c].line # i
            /\ exitCode \in {-1, 0}
            /\ (lifecycle = "Stopped" => cause \in {"close", "SIGTERM"})

\* C6 witness: a well-formed request read after an invalid line has been
\* answered with its result.
C6_Witness ==
    \E i, j \in Read :
        /\ i < j
        /\ ~lines[i].valid
        /\ lines[j] = GoodSchema
        /\ \E k \in ResponsesTo(j) : stdout[k] = SchemaAnswer

\* The method names the plugin answers by declaration.
Declared == {"getMetadata", "healthCheck"} \cup DOMAIN mod.handlers

\* C7: a decoded request whose method is neither built in nor declared by
\* the author invokes no handler and is answered with MethodNotFound and the
\* request's id.
C7_UndeclaredIsNotFound ==
    \A i \in Read :
        (Decoded(i) /\ String(Prop(lines[i], "method")) \notin Declared) =>
            /\ \A c \in 1..Len(calls) : calls[c].line # i
            /\ \A k \in ResponsesTo(i) :
                  /\ stdout[k].error
                  /\ stdout[k].code = Num(-32601)
                  /\ stdout[k].id = lines[i].id

\* C8: every response line has an id member: the request's id for a decoded
\* line, 0 for a line that could not be decoded.
C8_ResponseCarriesId ==
    \A k \in Emitted :
        /\ stdout[k].id # Absent
        /\ lines[answers[k]].valid => stdout[k].id = lines[answers[k]].id
        /\ ~lines[answers[k]].valid => stdout[k].id = Num(0)

\* C9: every response line has exactly one of result and error.
C9_ResultXorError ==
    \A k \in Emitted : (stdout[k].result # Absent) # stdout[k].error

\* Line i called a handler of the plugin and the handler failed.
HandlerFailed(i) == Decoded(i) /\ settled[i].async /\ settled[i].kind = "throw"

\* C10: a request whose handler failed is answered with an error response
\* that carries the failure's own code when that is a number, -32000
\* otherwise, and the request's id.
C10_FailureCode ==
    \A i \in Read :
        (HandlerFailed(i) /\ Finished(i)) =>
            \E k \in ResponsesTo(i) :
                /\ stdout[k].error
                /\ stdout[k].code =
                      IF settled[i].err.code.t = "number"
                      THEN settled[i].err.code
                      ELSE Num(-32000)
                /\ stdout[k].id = lines[i].id

\* Line i called a handler of the plugin and the handler returned a value
\* JSON.stringify cannot write.
ReturnedUnserializable(i) ==
    Decoded(i) /\ settled[i].kind = "return" /\ Unserializable(settled[i].value)

\* C11: a request whose handler returned a value that cannot be serialized
\* is answered with an InternalError (-32603) response carrying its id.
C11_UnserializableIsInternalError ==
    \A i \in Read :
        (ReturnedUnserializable(i) /\ Finished(i)) =>
            \E k \in ResponsesTo(i) :
                /\ stdout[k].error
                /\ stdout[k].code = Num(-32603)
                /\ stdout[k].id = lines[i].id

\* C12: every error object written has a numeric code and a message that is
\* a non-empty string.
C12_ErrorObjectWellFormed ==
    \A k \in Emitted :
        stdout[k].error =>
            /\ stdout[k].code.t = "number"
            /\ stdout[k].message.t = "string"
            /\ stdout[k].message.v # ""

\* C13: a response with code ParseError (-32700) is written only for a line
\* that was not valid JSON.
C13_ParseErrorOnlyForInvalidJson ==
    \A k \in Emitted :
        stdout[k].code = Num(-32700) => ~lines[answers[k]].valid

\* C13 as amended: a response with code -32700 answers a line that was not
\* valid JSON or a request whose handler failed with that very code.
C13_ParseErrorOrigin ==
    \A k \in Emitted :
        stdout[k].code = Num(-32700) =>
            \/ ~lines[answers[k]].valid
            \/ /\ HandlerFailed(answers[k])
               /\ settled[answers[k]].err.code = Num(-32700)

\* C13 witness: a decoded request has been answered with code -32700 while
\* an invalid line has been answered with it too.
C13_Witness ==
    \E a, b \in Emitted :
        /\ stdout[a].code = Num(-32700) /\ ~lines[answers[a]].valid
        /\ stdout[b].code = Num(-32700) /\ Decoded(answers[b])

\* Line i is a decoded request for the method named.
Calls(i, method) == Decoded(i) /\ lines[i].method = Str(method)

\* C14: getMetadata and healthCheck are answered by the substrate whatever
\* the handler map holds: no handler is invoked for them, not even one the
\* author declared under the same name, and they are answered with a result,
\* with an empty handler map too.
C14_BuiltInsAnswered ==
    \A i \in Read :
        (Calls(i, "getMetadata") \/ Calls(i, "healthCheck")) =>
            /\ \A c \in 1..Len(calls) : calls[c].line # i
            /\ settled[i].kind = "return" /\ ~settled[i].async
            /\ Calls(i, "getMetadata") => settled[i].value = Metadata
            /\ Calls(i, "healthCheck") => settled[i].value.v = "healthy"
            /\ Finished(i) =>
                  \E k \in ResponsesTo(i) :
                      ~stdout[k].error /\ stdout[k].result = settled[i].value

\* C14 witness: a plugin that declares handlers named getMetadata and
\* healthCheck has answered both requests with the substrate's results.
C14_Witness ==
    /\ {"getMetadata", "healthCheck"} \subseteq DOMAIN mod.handlers
    /\ \E i, j \in Read :
        /\ Calls(i, "getMetadata") /\ Calls(j, "healthCheck")
        /\ \E k \in ResponsesTo(i) : stdout[k].result = Metadata
        /\ \E k \in ResponsesTo(j) : stdout[k].result.v = "healthy"

\* C15: whatever requests came before, the result of a getMetadata request
\* is the descriptor the plugin was constructed with, as it was supplied.
C15_MetadataIsDescriptor ==
    \A k \in Emitted :
        Calls(answers[k], "getMetadata") =>
            /\ ~stdout[k].error
            /\ stdout[k].result = Obj("metadata")
            /\ stdout[k].code = Absent /\ stdout[k].message = Absent

\* C15 witness: getMetadata has been answered with the descriptor after a
\* request that invoked a handler of the plugin.
C15_Witness ==
    \E i, j \in Read :
        /\ i < j
        /\ \E c \in 1..Len(calls) : calls[c].line = i
        /\ Calls(j, "getMetadata")
        /\ \E k \in ResponsesTo(j) : stdout[k].result = Obj("metadata")

\* Response k answers a healthCheck request.
HealthResponse(k) == Calls(answers[k], "healthCheck")

\* C16: every healthCheck response carries healthy = true, the id of its
\* request and an uptime that is not negative, and of two healthCheck
\* responses the later one never carries the smaller uptime.
C16_UptimeNonNegativeNonDecreasing ==
    \A a, b \in Emitted :
        (HealthResponse(a) /\ HealthResponse(b)) =>
            /\ ~stdout[a].error
            /\ stdout[a].result.v = "healthy"
            /\ stdout[a].id = lines[answers[a]].id
            /\ stdout[a].result.n >= 0
            /\ a < b => stdout[a].result.n <= stdout[b].result.n

\* [a-z0-9]+(-[a-z0-9]+)*: lowercase alphanumeric segments joined by hyphens.
Segments(s) ==
    /\ Len(s) >= 1
    /\ \A i \in 1..Len(s) : s[i] \in Lower \cup Digit \cup {"-"}
    /\ s[1] # "-" /\ s[Len(s)] # "-"
    /\ \A i \in 1..Len(s) - 1 : ~(s[i] = "-" /\ s[i + 1] = "-")

\* Segments, a literal dot, segments.
Namespaced(name) ==
    \E p \in 1..Len(name) :
        /\ name[p] = "."
        /\ Segments(SubSeq(name, 1, p - 1))
        /\ Segments(SubSeq(name, p + 1, Len(name)))

\* The same, with a letter at the start of either side.
NamespacedLetterFirst(name) ==
    /\ Namespaced(name)
    /\ name[1] \in Lower
    /\ \A p \in 1..Len(name) - 1 : name[p] = "." => name[p + 1] \in Lower

\* The constructor has run on mod.payloadName and threw the error that names
\* it, which ended the process.
RejectedName ==
    /\ lifecycle = "Stopped"
    /\ exitCode = 1
    /\ stderr = << "payloadName '" \o Text(mod.payloadName)
                    \o "' must be namespaced dot-notation (e.g. 'junctionrelay.jr-protocol')" >>

\* C17: construction succeeds exactly when payloadName is lowercase
\* alphanumeric-with-hyphen segments, a dot, and such segments again;
\* "BadName" is rejected, "acme.widget-v2" accepted, and a rejection raises
\* an error whose message names the identifier.
C17_ConstructsIffNamespaced ==
    lifecycle \notin {"Starting", "Loading"} =>
        /\ (lifecycle = "Ready") <=> Namespaced(mod.payloadName)
        /\ (lifecycle # "Ready") <=> RejectedName
        /\ mod.payloadName = BadName => RejectedName
        /\ mod.payloadName = AcmeWidgetV2 => lifecycle = "Ready"

\* C17 as amended: the same, where both sides of the dot must also start with
\* a lowercase letter.
C17_ConstructsIffLetterFirst ==
    lifecycle \notin {"Starting", "Loading"} =>
        /\ (lifecycle = "Ready") <=> NamespacedLetterFirst(mod.payloadName)
        /\ (lifecycle # "Ready") <=> RejectedName
        /\ mod.payloadName = BadName => RejectedName
        /\ mod.payloadName = AcmeWidgetV2 => lifecycle = "Ready"

\* C17 witness: a name of lowercase alphanumeric segments whose second side
\* starts with a digit has been rejected.
C17_Witness ==
    /\ mod.payloadName = <<"a", ".", "1", "a">>
    /\ RejectedName

\* The start of the process cannot succeed: no entry path, no default export
\* with metadata, or a payloadName the pattern rejects.
StartupFails ==
    \/ argv \in {Undefined, Str("")}
    \/ ~mod.default
    \/ ~mod.metadata
    \/ ~isPluginPayloadName(mod.payloadName)

\* C18: when the start fails the plugin is never Ready, reads no line,
\* writes nothing to stdout, and ends with a status that is not 0.
C18_FailedStartNeverServes ==
    StartupFails =>
        /\ lifecycle # "Ready"
        /\ lines = <<>>
        /\ stdout = <<>>
        /\ startTime = 0
        /\ lifecycle = "Starting" => ENABLED Main
        /\ lifecycle = "Loading" => ENABLED Imported
        /\ lifecycle = "Stopped" =>
              /\ exitCode > 0
              /\ cause # "killed" => (exitCode = 1 /\ Len(stderr) = 1)

\* C18 witness: the process has ended with status 1 because the constructor
\* rejected the payloadName.
C18_Witness ==
    /\ argv \notin {Undefined, Str("")} /\ mod.default /\ mod.metadata
    /\ ~isPluginPayloadName(mod.payloadName)
    /\ lifecycle = "Stopped" /\ exitCode = 1 /\ cause = "uncaught"

\* The place of a lifecycle state in Starting, Ready, ShuttingDown, Stopped;
\* the plugin is Starting until the module has loaded.
Rank(state) ==
    CASE state = "Starting" -> 0
      [] state = "Loading" -> 0
      [] state = "Ready" -> 1
      [] state = "ShuttingDown" -> 2
      [] state = "Stopped" -> 3

\* C19: every step leaves the lifecycle where it is or moves it forward in
\* Starting, Ready, ShuttingDown, Stopped; a failed start never reaches
\* Ready; nothing happens once Stopped; and leaving Ready, by the close of
\* stdin or by SIGTERM, ends in Stopped with exit status 0.
C19_LifecycleAdvances ==
    [][ /\ Rank(lifecycle') >= Rank(lifecycle)
        /\ lifecycle # "Stopped"
        /\ (Rank(lifecycle) = 0 /\ StartupFails) => lifecycle' \in {"Loading", "Stopped"}
        /\ (lifecycle = "Ready" /\ lifecycle' # "Ready") =>
              /\ cause' \in {"close", "SIGTERM"}
              /\ lifecycle' = "Stopped"
              /\ exitCode' = 0 ]_vars

\* C19 witness: the plugin went through Ready, served a line and was stopped
\* by SIGTERM with status 0.
C19_Witness ==
    /\ lifecycle = "Stopped" /\ cause = "SIGTERM" /\ exitCode = 0
    /\ \E i \in Read : Finished(i)

\* C20: while the plugin is Ready, SIGTERM is acted on without waiting for
\* the handlers in flight; its listener writes the shutdown notice to stderr
\* and exits with status 0, and no response is written from then on.
C20_SigtermExitsAtOnce ==
    /\ []((lifecycle = "Ready" /\ \A j \in Read : ~Queued(j)) => ENABLED OnSigterm)
    /\ [][ (cause' = "SIGTERM" /\ cause # "SIGTERM") =>
              /\ lifecycle = "Ready"
              /\ stderr' = Append(stderr, "SIGTERM received")
              /\ lifecycle' = "Stopped"
              /\ exitCode' = 0
              /\ stdout' = stdout /\ pc' = pc ]_vars
    /\ [][ cause = "SIGTERM" => stdout' = stdout ]_vars

\* C20 witness: SIGTERM ended the process while a handler was in flight, and
\* the request of that handler has no response.
C20_Witness ==
    /\ lifecycle = "Stopped" /\ cause = "SIGTERM" /\ exitCode = 0
    /\ \E i \in Read : HandlerInFlight(i) /\ ResponsesTo(i) = {}

\* How many times stderr holds a notice: "ready", "unhandled", "stdin closed"
\* or "SIGTERM received".
Count(notice) == Cardinality({n \in 1..Len(stderr) : stderr[n] = notice})

\* C21: every line of stdout is a response envelope written for an input
\* line, and the ready notice, the unhandled-error notices and the shutdown
\* notices are all on stderr.
C21_StdoutHoldsOnlyResponses ==
    /\ \A k \in Emitted :
          /\ stdout[k].jsonrpc = Str("2.0")
          /\ answers[k] \in Read
          /\ pc[answers[k]] = "done"
    /\ Len(stdout) = Cardinality({i \in Read : pc[i] = "done"})
    /\ lifecycle = "Ready" => Count("ready") = 1
    /\ Count("unhandled") = Cardinality({i \in Read : pc[i] = "unhandled"})
    /\ (lifecycle = "Stopped" /\ cause = "close") => Count("stdin closed") = 1
    /\ (lifecycle = "Stopped" /\ cause = "SIGTERM") => Count("SIGTERM received") = 1

\* C21 witness: the plugin has written a response, an unhandled-error notice
\* and a shutdown notice.
C21_Witness ==
    /\ stdout # <<>>
    /\ Count("ready") = 1 /\ Count("unhandled") = 1
    /\ Count("stdin closed") + Count("SIGTERM received") = 1

\* handleLine's promise for line i was rejected: a failure left its catch
\* block.
Escaped(i) == pc[i] \in {"rejected", "unhandled"}

\* C22: a failure that leaves handleLine is caught by the line listener,
\* which writes one unhandled-error notice to stderr and nothing else; the
\* process stays Ready and goes on accepting lines.
C22_EscapedFailureIsReported ==
    /\ [][ \A i \in Read :
              (pc[i] = "rejected" /\ pc'[i] = "unhandled") =>
                  /\ stderr' = Append(stderr, "unhandled")
                  /\ lifecycle' = "Ready" /\ exitCode' = -1
                  /\ stdout' = stdout /\ lines' = lines ]_vars
    /\ [](Count("unhandled") = Cardinality({i \in Read : pc[i] = "unhandled"}))
    /\ []((lifecycle = "Ready" /\ Len(lines) < MaxLines /\ \E i \in Read : Escaped(i))
              => \A doc \in Lines : ENABLED OnLine(doc))

\* C22 witness: the failure of one line escaped and was reported once, and a
\* line read after it has been answered.
C22_Witness ==
    /\ lifecycle = "Ready"
    /\ Count("unhandled") = 1
    /\ \E i, j \in Read :
        /\ i < j
        /\ pc[i] = "unhandled" /\ ResponsesTo(i) = {}
        /\ pc[j] = "done" /\ ResponsesTo(j) # {}

\* C23: every response is one write of one complete line, a JSON document
\* without a line break in it and one newline after it, and a write only
\* ever adds its line after the lines written before, also while several
\* requests are in flight.
C23_OneLinePerWrite ==
    /\ [](\A k \in Emitted : stdout[k].breaks = 0 /\ stdout[k].eol = 1)
    /\ [][ \/ stdout' = stdout
           \/ /\ Len(stdout') = Len(stdout) + 1
              /\ SubSeq(stdout', 1, Len(stdout)) = stdout
              /\ Len(answers') = Len(stdout') ]_vars

\* C23 witness: two requests were in flight together, and the response to
\* the second was written before the response to the first.
C23_Witness ==
    /\ Len(stdout) = 2
    /\ answers = <<2, 1>>
    /\ settled[1].async /\ settled[2].async

\* C24: the ready notice is written once, in the step that enters Ready, and
\* it is on stderr before any line is read or any response is written.
C24_ReadyNoticeOnceAndFirst ==
    /\ [](lifecycle \in {"Starting", "Loading"}
              => (stderr = <<>> /\ lines = <<>> /\ stdout = <<>>))
    /\ []((lifecycle = "Ready" \/ lines # <<>> \/ stdout # <<>>)
              => (Count("ready") = 1 /\ stderr[1] = "ready"))
    /\ [][ Count("ready")' # Count("ready")
              => (lifecycle = "Loading" /\ lifecycle' = "Ready"
                  /\ stderr' = <<"ready">> /\ lines' = <<>> /\ stdout' = <<>>) ]_vars

\* C24 witness: the ready notice is the first of several notices on stderr,
\* and lines have been read and answered since.
C24_Witness ==
    /\ Len(stderr) > 1 /\ stderr[1] = "ready" /\ Count("ready") = 1
    /\ Len(lines) = 2 /\ stdout # <<>>

\* Line i is a decoded request whose method the author's handler map
\* declares, the two built-in names aside.
FindsHandler(i) ==
    /\ Decoded(i)
    /\ lines[i].method \notin {Absent, Str("getMetadata"), Str("healthCheck")}
    /\ String(Prop(lines[i], "method")) \in DOMAIN mod.handlers

\* C25: a request that finds a declared handler invokes it once, with the
\* params of the request as they were sent, or with {} when the request has
\* no params or null; whatever the params are, the request ends the way its
\* handler ends.
C25_HandlerGetsRawParams ==
    \A i \in Read :
        FindsHandler(i) =>
            /\ Cardinality({c \in 1..Len(calls) : calls[c].line = i}) = 1
            /\ \A c \in 1..Len(calls) :
                  calls[c].line = i =>
                      /\ calls[c].method = String(Prop(lines[i], "method"))
                      /\ calls[c].params =
                            IF lines[i].params \in {Absent, JsNull}
                            THEN Obj("{}")
                            ELSE lines[i].params
            /\ settled[i] = mod.handlers[String(Prop(lines[i], "method"))]

\* C25 witness: handlers have been invoked with params that are a number and
\* with {} in place of null.
C25_Witness ==
    /\ Len(calls) = 2
    /\ calls[1].params = Num(0) /\ lines[calls[1].line].params = Num(0)
    /\ calls[2].params = Obj("{}") /\ lines[calls[2].line].params = JsNull

\* C26: no step after construction writes the start timestamp or changes
\* the plugin's configuration, so the method names a request can resolve
\* stay those of the construction.
C26_RequestsLeaveStateAlone ==
    [][ lifecycle \notin {"Starting", "Loading"} =>
            /\ startTime' = startTime
            /\ mod' = mod
            /\ Declared' = Declared ]_vars

\* C26 witness: two requests, a healthCheck among them, have been processed
\* to their end at a time later than the construction.
C26_Witness ==
    /\ lifecycle = "Ready"
    /\ now > startTime /\ startTime = Epoch
    /\ Len(lines) = 2 /\ \A i \in Read : Finished(i)
    /\ \E i \in Read : Calls(i, "healthCheck")
    /\ \E i \in Read : FindsHandler(i)

\* What the plugin writes for a line when that line is all it reads: no
\* line, or the one line of its response.
Alone(doc) ==
    IF ~doc.valid THEN writeResponse(<<>>, ParseError)
    ELSE IF doc.isNull THEN <<>>
    ELSE LET request == JSONparse(doc)
             effect == handleLineResume(request,
                          dispatch(Prop(request, "method"), ParamsOrDefault(request)))
         IN  IF effect.kind = "write" THEN writeResponse(<<>>, effect.response)
             ELSE <<>>

\* C27: the response to a request other than healthCheck does not depend on
\* the lines read before it or on the requests in flight with it: it is the
\* response the same request gets when it is the only line, so that equal
\* requests get equal responses in any two runs.
C27_ResponseIndependentOfHistory ==
    \A i \in Read :
        ~Calls(i, "healthCheck") =>
            LET alone == Alone(lines[i])
            IN  /\ \A k \in ResponsesTo(i) : <<stdout[k]>> = alone
                /\ Finished(i) => Cardinality(ResponsesTo(i)) = Len(alone)

\* C27 witness: a request was answered while the handler of a different
\* request, read before it, was still in flight.
C27_Witness ==
    /\ Len(lines) = 2 /\ lines[1] # lines[2]
    /\ HandlerInFlight(1)
    /\ FindsHandler(2) /\ pc[2] = "done"
    /\ <<stdout[1]>> = Alone(lines[2])

\* C28: a plugin of the fixed-method version that has transform only
\* answers getOutputSchema with the default schema, validate with
\* {valid: true}, and transformConfig with an error response that carries
\* code MethodNotFound and the id of the request.
C28_OptionalMembersDefault ==
    DOMAIN mod.handlers = {"transform"} =>
        \A i \in Read :
            Finished(i) =>
                /\ Calls(i, "getOutputSchema") =>
                      \E k \in ResponsesTo(i) :
                          ~stdout[k].error /\ stdout[k].result = NoSchema
                /\ Calls(i, "validate") =>
                      \E k \in ResponsesTo(i) :
                          ~stdout[k].error /\ stdout[k].result = Valid
                /\ Calls(i, "transformConfig") =>
                      \E k \in ResponsesTo(i) :
                          /\ stdout[k].error
                          /\ stdout[k].code = Num(-32601)
                          /\ stdout[k].id = lines[i].id

\* The number of shutdown notices written so far.
ShutdownNotices == Count("stdin closed") + Count("SIGTERM received")

\* C29: a process writes at most one shutdown notice, it has ended with
\* status 0 once the notice is written, and from then on no line is read, no
\* handler is started and nothing is written to stdout or stderr.
C29_NothingAfterShutdownNotice ==
    /\ [](ShutdownNotices <= 1)
    /\ [](ShutdownNotices = 1 => (lifecycle = "Stopped" /\ exitCode = 0))
    /\ [][ ShutdownNotices = 1 =>
              /\ stdout' = stdout /\ stderr' = stderr
              /\ lines' = lines /\ calls' = calls /\ pc' = pc ]_vars

\* C29 witness: the close of stdin ended the process while a handler was in
\* flight; its request has no response.
C29_Witness ==
    /\ ShutdownNotices = 1 /\ cause = "close"
    /\ \E i \in Read : HandlerInFlight(i) /\ ResponsesTo(i) = {}

\* C30: a response to a line whose handler did not fail carries no error
\* code other than -32700, -32601 and -32000; a decoded request without a
\* method name is answered with -32601; and -32600, -32602 and -32603 are
\* only ever the code a handler's failure carried.
C30_CodesOfTheSubstrate ==
    /\ \A k \in Emitted :
          (stdout[k].error /\ ~HandlerFailed(answers[k])) =>
              stdout[k].code \in {Num(-32700), Num(-32601), Num(-32000)}
    /\ \A i \in Read :
          (Decoded(i) /\ lines[i].method = Absent /\ Finished(i)) =>
              \E k \in ResponsesTo(i) :
                  stdout[k].error /\ stdout[k].code = Num(-32601)
    /\ \A k \in Emitted :
          stdout[k].code \in {Num(-32600), Num(-32602), Num(-32603)} =>
              /\ HandlerFailed(answers[k])
              /\ settled[answers[k]].err.code = stdout[k].code

\* C30 witness: a request without a method name was answered with -32601,
\* and a request whose handler failed with code -32602 was answered with
\* that code.
C30_Witness ==
    \E a, b \in Emitted :
        /\ lines[answers[a]] = EmptyDoc /\ stdout[a].code = Num(-32601)
        /\ HandlerFailed(answers[b]) /\ stdout[b].code = Num(-32602)

\* The invocations made for line i.
InvocationsFor(i) == {c \in 1..Len(calls) : calls[c].line = i}

\* C31: no line has more than one handler invocation, a line that is not
\* valid JSON and a request for getMetadata or healthCheck have none, and
\* there are never more invocations than lines read.
C31_AtMostOneInvocationPerLine ==
    /\ \A i \in Read :
          /\ Cardinality(InvocationsFor(i)) <= 1
          /\ ~Decoded(i) => InvocationsFor(i) = {}
          /\ lines[i].method \in {Str("getMetadata"), Str("healthCheck")}
                => InvocationsFor(i) = {}
    /\ \A c \in 1..Len(calls) : calls[c].line \in Read
    /\ Len(calls) <= Len(lines)

\* C31 witness: of two lines read, a line that is not valid JSON and a
\* request for a declared handler, only the second invoked a handler.
C31_Witness ==
    /\ Len(lines) = 2 /\ Len(calls) = 1
    /\ ~lines[1].valid
    /\ FindsHandler(2) /\ InvocationsFor(2) = {1}

\* C32: every line of stdout has jsonrpc "2.0", and a request is read,
\* dispatched and answered as the same request with jsonrpc "2.0" is,
\* whatever its own jsonrpc member holds.
C32_TagWrittenNotChecked ==
    /\ \A k \in Emitted : stdout[k].jsonrpc = Str("2.0")
    /\ \A i \in Read :
          Decoded(i) =>
              LET tagged == [lines[i] EXCEPT !.jsonrpc = Str("2.0")]
              IN  /\ settled[i] = dispatch(tagged.method, ParamsOrDefault(tagged))
                  /\ FindsHandler(i) => Cardinality(InvocationsFor(i)) = 1
                  /\ \A k \in ResponsesTo(i) : <<stdout[k]>> = Alone(tagged)
                  /\ Finished(i) => Cardinality(ResponsesTo(i)) = Len(Alone(tagged))

\* C32 witness: a request without a jsonrpc member and one with "1.0" have
\* both been answered with a result.
C32_Witness ==
    /\ Len(lines) = 2
    /\ lines[1].jsonrpc = Absent /\ lines[2].jsonrpc = Str("1.0")
    /\ \A i \in Read :
          /\ Decoded(i)
          /\ \E k \in ResponsesTo(i) : ~stdout[k].error /\ stdout[k].jsonrpc = Str("2.0")

\* C33: filterSensorsByTags(sensors, tags) returns a record whose keys are
\* exactly the keys of sensors that occur in tags, each mapped to the entry
\* it has in sensors; sensors is not modified, a tag that is no key of
\* sensors adds nothing, and filtering the result again with the same tags
\* gives the same record.
C33_FilterKeepsTaggedEntries ==
    call.fn = "filterSensorsByTags" =>
        LET tagSet == {call.tags[i] : i \in DOMAIN call.tags}
        IN  /\ Keys(returned) = Keys(call.sensors) \cap tagSet
            /\ \A tag \in Keys(returned) : Get(returned, tag) = Get(call.sensors, tag)
            /\ call.after = call.sensors
            /\ filterSensorsByTags(returned, call.tags).entries = returned.entries

\* C34: the settings of a config payload are exactly the entries of config
\* whose key is not a host-only key (fieldsToSend) and whose value is none
\* of false, 0, "", null and undefined, with their values unchanged;
\* fieldsToSend never appears among them.
C34_SettingsAreThePresentEntries ==
    call.fn = "config" =>
        LET settings == returned.payload.settings
            kept == {key \in Keys(call.config) :
                        /\ key # "fieldsToSend"
                        /\ Get(call.config, key) \notin
                               {False, Num(0), Str(""), JsNull, Undefined}}
        IN  /\ Keys(settings) = kept
            /\ \A key \in Keys(settings) : Get(settings, key) = Get(call.config, key)
            /\ "fieldsToSend" \notin Keys(settings)

\* The field names config.fieldsToSend selects, in lower case: the items of
\* the array or the comma-separated parts of the string, value and unit
\* when fieldsToSend is unset, an empty array or a blank string.
Selected(settingsOf) ==
    LET raw == Field(settingsOf, "fieldsToSend")
        default == {"value", "unit"}
    IN  IF raw.t = "undefined" THEN default
        ELSE IF "items" \in DOMAIN raw
             THEN IF raw.items = <<>> THEN default
                  ELSE {Concat(toLowerCase(trim(raw.items[i].pieces))) :
                           i \in {j \in DOMAIN raw.items : "pieces" \in DOMAIN raw.items[j]}}
             ELSE IF \A i \in DOMAIN raw.pieces : raw.pieces[i] = " " THEN default
                  ELSE LET parts == split(raw.pieces, <<>>)
                       IN  {Concat(toLowerCase(trim(parts[i]))) : i \in DOMAIN parts}

\* The lower-case name of a property of an entry.
LowerName(property) ==
    IF property \in {"value", "unit"}
    THEN property
    ELSE CHOOSE field \in DOMAIN OptionalFields : OptionalFields[field] = property

\* C35: the sensor handler returns a sensors dictionary whose keys are
\* exactly the input sensor tags, each mapped to a one-element array; the
\* entry holds only fields that fieldsToSend names (whatever their case;
\* value and unit when it is unset, an empty array or a blank string), an
\* optional field only when the sensor has it, and value as a string.
C35_SensorsDictionary ==
    call.fn = "sensor" =>
        /\ returned.kind = "return"
        /\ LET sensorDict == returned.value.payload.sensors
           IN  /\ Keys(sensorDict) = Keys(call.sensors)
               /\ \A tag \in Keys(sensorDict) :
                     LET wrapped == Get(sensorDict, tag)
                         entry == wrapped.items[1]
                         s == Get(call.sensors, tag)
                     IN  /\ Len(wrapped.items) = 1
                         /\ \A property \in Keys(entry) :
                               /\ LowerName(property) \in Selected(call.config)
                               /\ property \notin {"value", "unit"} =>
                                     /\ Field(s, property).t \notin {"null", "undefined"}
                                     /\ Get(entry, property) = Field(s, property)
                         /\ "value" \in Keys(entry) => Get(entry, "value").t = "string"

\* Reading the archive back.
readUInt16LE(buf, at) == buf[at + 1] + 256 * buf[at + 2]
readUInt32LE(buf, at) ==
    buf[at + 1] + 256 * buf[at + 2] + 65536 * buf[at + 3] + 16777216 * buf[at + 4]

\* The lengths of the local and of the central record of an entry, and their
\* sums over the first n entries.
LocalLength(entry) == 30 + Len(entry.name) + entry.deflated
CentralLength(entry) == 46 + Len(entry.name)

RECURSIVE LocalTotal(_, _)
LocalTotal(entries, n) ==
    IF n = 0 THEN 0 ELSE LocalTotal(entries, n - 1) + LocalLength(entries[n])

RECURSIVE CentralTotal(_, _)
CentralTotal(entries, n) ==
    IF n = 0 THEN 0 ELSE CentralTotal(entries, n - 1) + CentralLength(entries[n])

\* C36: in the archive createZip builds, the local-header offset stored in
\* the central record of an entry is the total length of the local records
\* of the entries before it; the end record stores the total length of the
\* local records as the central directory offset, the total length of the
\* central records as the central directory size, and the number of entries
\* in both of its counts.
C36_ArchiveOffsets ==
    (call.fn = "createZip" /\ returned.kind = "return") =>
        LET zip == returned.value
            entries == call.entries
            count == Len(entries)
            centralDir == LocalTotal(entries, count)
            end == centralDir + CentralTotal(entries, count)
        IN  /\ Len(zip) = end + 22
            /\ \A i \in 1..count :
                  LET record == centralDir + CentralTotal(entries, i - 1)
                      local == LocalTotal(entries, i - 1)
                  IN  /\ readUInt32LE(zip, record) = CentralSignature
                      /\ readUInt32LE(zip, record + 42) = local
                      /\ readUInt32LE(zip, local) = LocalSignature
            /\ readUInt32LE(zip, end) = EndSignature
            /\ readUInt32LE(zip, end + 16) = centralDir
            /\ readUInt32LE(zip, end + 12) = CentralTotal(entries, count)
            /\ readUInt16LE(zip, end + 8) = count
            /\ readUInt16LE(zip, end + 10) = count

\* C36 witness: the script has written an archive of two entries whose
\* second local record starts beyond byte 255.
C36_Witness ==
    /\ call.fn = "createZip" /\ returned.kind = "return"
    /\ Len(files) = 1 /\ files[1].data = returned.value
    /\ Len(call.entries) = 2
    /\ LocalLength(call.entries[1]) > 255
    /\ call.entries[2].size = 70000
    /\ Len(call.entries[1].name) = 20

====
